---- MODULE Spec2Model ----
(***************************************************************************)
(* DDNSWolf: the reconciliation cycle of an updater                        *)
(* (DynamicDNSUpdater.update_from_subscriptions) and the Cloudflare        *)
(* updater's zone / record resolver (CloudflareDNSUpdater); the default    *)
(* change detection by DNS (DynamicDNSUpdater.needs_update); the address   *)
(* filters and the providers built from them; and the start-up, which      *)
(* builds the providers from the subscription strings of the configuration *)
(* (DDNSWolfApplication.from_config).                                      *)
(*                                                                         *)
(* Time is counted in hours.  The registrar (the Cloudflare API) and the   *)
(* subscribed providers are the environment: their answers are drawn from  *)
(* small sets by the actions.                                              *)
(***************************************************************************)
EXTENDS Integers, Sequences, FiniteSets, TLC

VARIABLES
    hostname,            \* self.config["hostname"], a text name
    create_records,      \* self.config.get("create_records", False)
    now,                 \* datetime.now(), in hours
    cf_zone,             \* self._cf_zone
    cf_zone_last_update, \* self._cf_zone_last_update
    cf_records,          \* the registrar's records, in listing order
    pc,                  \* position of update_from_subscriptions
    all_addresses,       \* all_addresses of the running cycle
    cleaned_addresses,   \* cleaned_addresses.values() of the running cycle
    idx,                 \* position of the loop over cleaned_addresses
    need,                \* what needs_update returned for cleaned_addresses[idx]
    cycleLog,            \* history: the needs_update / update calls of the cycle
    zoneCalls,           \* history: the _get_zone calls of the last operation
    stored,              \* history: the last zone a remote query matched, and when
    dns_address,         \* default needs_update: its argument address_update
    dns_reply,           \* default needs_update: what resolver.resolve does
    dns_result,          \* default needs_update: what it returned or raised
    sources,             \* from_config: sources, the names of the source objects
    config_subscriptions,\* from_config: each updater's config "subscriptions"
    subscriptions,       \* from_config: each updater's self.subscriptions
    config_pc,           \* position of main(): from_config, then run
    config_updater,      \* from_config: position of the loop over updaters
    config_subscription, \* from_config: position of the loop over subscription strings
    config_exc,          \* the exception main() caught, if any
    pulled,              \* history: the subscribed objects update_now pulled
    filter_provider,     \* a provider built from filters and a source
    filter_source,       \* the addresses the source at its end provides
    filter_pulled,       \* what provide_addresses() of the provider gave
    filter_again,        \* what a second call, or a second pull, gave
    filter_source_again, \* the addresses the source provides at the second pull
    filter_source_pulls, \* history: the provide_addresses() calls on the source
    compare_a,           \* a comparison of two address updates: the left operand
    compare_b,           \* the right operand
    compare_result,      \* what a < b, a == b and b < a gave
    den_pc,              \* dnsden's _get_zone: its position
    den_zone_name,       \* dnsden's _get_zone: zone_name
    den_queries,         \* history: the zone queries of the call, with the answers
    run_pc,              \* position of DDNSWolfApplication.run
    run_now,             \* run: what datetime.now() gives, in hours
    run_loop_now,        \* run: the local now, read at the head of the while loop
    run_events,          \* history: the starts and ends of rounds, and the sleeps
    run_last_update,     \* run: last_update
    run_check_interval,  \* run: self.check_interval, in hours
    run_updater,         \* update_now: position of the loop over self.updaters
    run_subscriptions,   \* run: each updater's self.subscriptions
    run_zone,            \* run: each updater's _cf_zone and _cf_zone_last_update
    run_cycle,           \* run: each updater's update_from_subscriptions call
    run_records,         \* run: the registrar's records, in listing order
    run_log              \* history: the pulls and calls of the round, in order

\* the state of the default change detection
dnsVars == << dns_address, dns_reply, dns_result >>

\* the state of the start-up
configVars == << sources, config_subscriptions, subscriptions, config_pc,
                 config_updater, config_subscription, config_exc, pulled >>

\* the state of a pull through filters
filterVars == << filter_provider, filter_source, filter_pulled, filter_again,
                 filter_source_again, filter_source_pulls >>

\* the state of a comparison of two address updates
compareVars == << compare_a, compare_b, compare_result >>

\* the state of a zone search of the dnsden updater
denVars == << den_pc, den_zone_name, den_queries >>

\* the state of the polling loop over several updaters
runVars == << run_pc, run_now, run_loop_now, run_events, run_last_update, run_check_interval, run_updater,
              run_subscriptions, run_zone, run_cycle, run_records, run_log >>

pipelineVars == << dnsVars, configVars, filterVars, compareVars,
                  denVars,
                  runVars >>

vars == << hostname, create_records, now, cf_zone, cf_zone_last_update, cf_records,
           pc, all_addresses, cleaned_addresses, idx, need, cycleLog, zoneCalls,
           stored, pipelineVars >>

\* needs_update has not been called
NotCalled == [value |-> "none", exc |-> "None", msg |-> ""]

\* no default change detection is under way
DnsIdle ==
    /\ dns_address = "none"
    /\ dns_reply = "none"
    /\ dns_result = NotCalled

\* no start-up is under way
ConfigIdle ==
    /\ sources = {}
    /\ config_subscriptions = << >>
    /\ subscriptions = << >>
    /\ config_pc = "none"
    /\ config_updater = 0
    /\ config_subscription = 0
    /\ config_exc = "none"
    /\ pulled = << >>

\* no pull through filters is under way
FilterIdle ==
    /\ filter_provider = "none"
    /\ filter_source = << >>
    /\ filter_pulled = "none"
    /\ filter_again = "none"
    /\ filter_source_again = << >>
    /\ filter_source_pulls = 0

\* no zone search of the dnsden updater is under way
DenIdle ==
    /\ den_pc = "none"
    /\ den_zone_name = "none"
    /\ den_queries = << >>

\* no polling loop is under way
RunIdle ==
    /\ run_pc = "none"
    /\ run_now = 0
    /\ run_loop_now = 0
    /\ run_events = << >>
    /\ run_last_update = 0
    /\ run_check_interval = 0
    /\ run_updater = 0
    /\ run_subscriptions = << >>
    /\ run_zone = << >>
    /\ run_cycle = << >>
    /\ run_records = << >>
    /\ run_log = << >>

\* no comparison is under way
CompareIdle ==
    /\ compare_a = "none"
    /\ compare_b = "none"
    /\ compare_result = "none"

(***************************************************************************)
(* Bounds of the model.                                                    *)
(***************************************************************************)
StartTime == 5
MaxTicks == 5
MaxAddrs == 3

MaxTime == StartTime + MaxTicks

(***************************************************************************)
(* Program constants.                                                      *)
(***************************************************************************)
\* datetime.min, the "never" value of _cf_zone_last_update
DatetimeMin == 0
\* timedelta(hours=4), the freshness window of the cached zone
ZoneFreshHours == 4
\* "ttl": 1, automatic choice by Cloudflare
AutoTTL == 1

(***************************************************************************)
(* DNS names.  A text name is what a config or the API holds (labels and   *)
(* whether it ends in the root dot); a Name is dns.name.Name, always       *)
(* absolute here.                                                          *)
(***************************************************************************)
Str(labels, dot) == [kind |-> "str", labels |-> labels, dot |-> dot]
Name(labels) == [kind |-> "Name", labels |-> labels]

\* dns.name.from_text: a relative text is made absolute with the root origin
from_text(t) == Name(t.labels)

\* str(Name) of an absolute name: ends in the root dot
to_text(n) == Str(n.labels, TRUE)

\* the case folding of dns.name.Name.__eq__
Lower(l) == CASE l = "Example" -> "example"
              [] l = "COM" -> "com"
              [] l = "WWW" -> "www"
              [] OTHER -> l

\* dns.name.Name.__eq__
NameEq(n1, n2) ==
    /\ Len(n1.labels) = Len(n2.labels)
    /\ \A i \in 1..Len(n1.labels) : Lower(n1.labels[i]) = Lower(n2.labels[i])

dns_names_equal(name1, name2) ==
    LET n1 == IF name1.kind = "Name" THEN name1 ELSE from_text(name1)
        n2 == IF name2.kind = "Name" THEN name2 ELSE from_text(name2)
    IN  NameEq(n1, n2)

\* mutant: the ascent gives up at the top-level name
HasParentBelowTop(n) == Len(n.labels) > 1

\* dns.name.Name.parent(); the root has none (NoParent)
HasParent(n) == Len(n.labels) > 0
parent(n) == Name(Tail(n.labels))

(***************************************************************************)
(* The registrar's zone listing, self.cf.zones.get(params={"name": q}).    *)
(* How the registrar answers is not decided by this program: a table gives,*)
(* for each queried name (by its number of labels), one kind of answer.    *)
(***************************************************************************)
ReplyKinds == {"api_error", "empty", "other", "match", "other_match"}

NoZone == [id |-> -1, name |-> Str(<< >>, FALSE)]

\* the zone the registrar holds under the queried name: Cloudflare lists zone
\* names in lower case and without the root dot
ZoneNamed(q) ==
    [id |-> Len(q.labels),
     name |-> Str([i \in 1..Len(q.labels) |-> Lower(q.labels[i])], FALSE)]

\* a zone of another name
ZoneBeside(q) ==
    [id |-> 10 + Len(q.labels), name |-> Str(<<"x">> \o q.labels, FALSE)]

ZonesGet(table, q) ==
    LET kind == table[Len(q.labels)]
    IN  [error |-> (kind = "api_error"),
         zones |-> CASE kind = "match" -> << ZoneNamed(q) >>
                     [] kind = "other" -> << ZoneBeside(q) >>
                     [] kind = "other_match" -> << ZoneBeside(q), ZoneNamed(q) >>
                     [] OTHER -> << >>]

(***************************************************************************)
(* CloudflareDNSUpdater._set_zone and _get_zone.  cache is the pair        *)
(* (_cf_zone, _cf_zone_last_update); t is datetime.now().  The result      *)
(* holds the returned zone or the raised exception, the cache as the call  *)
(* leaves it, and the remote queries issued with the registrar's answers.  *)
(***************************************************************************)
\* mutant: the timestamp is not refreshed
_set_zone_stale(zone, t) ==
    [zone |-> zone, last |-> DatetimeMin]

_set_zone(zone, t) ==
    [zone |-> zone, last |-> IF zone # NoZone THEN t ELSE DatetimeMin]

ZoneNotFound == "Could not find the zone"

\* mutant: the first listed zone is taken, whatever its name
FirstListed(zones, zone_name) == zones

\* the for loop over the listed zones: the first one of the queried name
FirstMatching(zones, zone_name) ==
    LET Matches(z) == dns_names_equal(z.name, zone_name)
    IN  SelectSeq(zones, Matches)

RECURSIVE Ascend(_, _, _, _, _, _)
Ascend(zone_name, cache, table, t, queries, replies) ==
    LET q == to_text(zone_name)
        reply == ZonesGet(table, q)
        qs == Append(queries, q)
        rs == Append(replies, reply)
        found == IF reply.error THEN << >> ELSE FirstMatching(reply.zones, zone_name)
    IN  IF found # << >>
        THEN [exc |-> "None", msg |-> "", zone |-> Head(found),
              cache |-> _set_zone(Head(found), t), queries |-> qs, replies |-> rs]
        ELSE IF HasParent(zone_name)
        THEN Ascend(parent(zone_name), cache, table, t, qs, rs)
        ELSE [exc |-> "DDNSWolfUserException", msg |-> ZoneNotFound, zone |-> NoZone,
              cache |-> cache, queries |-> qs, replies |-> rs]

\* mutant: the window is closed at its end
IsFreshInclusive(cache, t) ==
    cache.last + ZoneFreshHours >= t /\ cache.zone # NoZone

IsFresh(cache, t) ==
    cache.last + ZoneFreshHours > t /\ cache.zone # NoZone

\* mutant: a cache hit refreshes the timestamp
_get_zone_sliding(cache, host, table, t) ==
    IF IsFresh(cache, t)
    THEN [exc |-> "None", msg |-> "", zone |-> cache.zone,
          cache |-> [zone |-> cache.zone, last |-> t],
          queries |-> << >>, replies |-> << >>]
    ELSE Ascend(from_text(host), cache, table, t, << >>, << >>)

\* mutant: a failed ascent clears the cache, as _set_zone(None) would
_get_zone_forgets(cache, host, table, t) ==
    IF IsFresh(cache, t)
    THEN [exc |-> "None", msg |-> "", zone |-> cache.zone, cache |-> cache,
          queries |-> << >>, replies |-> << >>]
    ELSE LET r == Ascend(from_text(host), cache, table, t, << >>, << >>)
         IN  IF r.exc # "None" THEN [r EXCEPT !.cache = _set_zone(NoZone, t)] ELSE r

_get_zone(cache, host, table, t) ==
    IF IsFresh(cache, t)
    THEN [exc |-> "None", msg |-> "", zone |-> cache.zone, cache |-> cache,
          queries |-> << >>, replies |-> << >>]
    ELSE Ascend(from_text(host), cache, table, t, << >>, << >>)

(***************************************************************************)
(* History of a _get_zone call, and of the last remote match.              *)
(***************************************************************************)
ZoneCall(cache, st, t, r) ==
    [at |-> t, before |-> cache, storedBefore |-> st, queries |-> r.queries,
     replies |-> r.replies, exc |-> r.exc, msg |-> r.msg, zone |-> r.zone,
     after |-> r.cache]

NoStored == [zone |-> NoZone, at |-> DatetimeMin]

StoredAfter(st, t, r) ==
    IF r.exc = "None" /\ r.queries # << >> THEN [zone |-> r.zone, at |-> t] ELSE st

(***************************************************************************)
(* Configurations.                                                         *)
(***************************************************************************)
Hostnames == { Str(<<"www", "Example", "COM">>, FALSE),
               Str(<<"example", "com">>, TRUE) }

MaxLabels == 3

\* The answers that matter are those to the names the ascent queries: the full
\* name first, down to the first name answered with a zone of that name.  The
\* tables that differ only below that name are one and the same registrar.
Matching(kind) == kind \in {"match", "other_match"}

Asked(table, n, len) == \A m \in (len + 1)..n : ~Matching(table[m])

TablesOf ==
    [n \in 0..MaxLabels |->
        { table \in [0..n -> ReplyKinds] :
            \A len \in 0..n : Asked(table, n, len) \/ table[len] = "empty" }]

Tables(host) == TablesOf[Len(host.labels)]

NoTable == [n \in 0..MaxLabels |-> "empty"]

\* the registrar's possible answers to one _get_zone call: none is asked for
\* while the cached zone is fresh
ZoneAnswers(cache, host, t) ==
    IF IsFresh(cache, t) THEN { NoTable } ELSE Tables(host)

(***************************************************************************)
(* Zone resolution alone: _get_zone called again and again as time passes. *)
(***************************************************************************)
CycleIdle ==
    /\ pc = "idle"
    /\ all_addresses = << >>
    /\ cleaned_addresses = << >>
    /\ idx = 0
    /\ need = "none"
    /\ cycleLog = << >>

InitZone ==
    /\ hostname \in Hostnames
    /\ create_records = FALSE
    /\ now = StartTime
    /\ cf_zone = NoZone
    /\ cf_zone_last_update = DatetimeMin
    /\ cf_records = << >>
    /\ CycleIdle
    /\ zoneCalls = << >>
    /\ stored = NoStored
    /\ DnsIdle /\ ConfigIdle /\ FilterIdle /\ CompareIdle /\ DenIdle /\ RunIdle

Tick ==
    /\ now < MaxTime
    /\ now' = now + 1
    /\ UNCHANGED pipelineVars
    /\ UNCHANGED << hostname, create_records, cf_zone, cf_zone_last_update, cf_records,
                    pc, all_addresses, cleaned_addresses, idx, need, cycleLog,
                    zoneCalls, stored >>

\* _get_zone was called, with result r
GetZoneDone(r, cache) ==
    /\ cf_zone' = r.cache.zone
    /\ cf_zone_last_update' = r.cache.last
    /\ zoneCalls' = << ZoneCall(cache, stored, now, r) >>
    /\ stored' = StoredAfter(stored, now, r)

GetZoneCall ==
    /\ \E table \in ZoneAnswers([zone |-> cf_zone, last |-> cf_zone_last_update],
                                hostname, now) :
            GetZoneDone(_get_zone([zone |-> cf_zone, last |-> cf_zone_last_update],
                                  hostname, table, now),
                        [zone |-> cf_zone, last |-> cf_zone_last_update])
    /\ UNCHANGED pipelineVars
    /\ UNCHANGED << hostname, create_records, now, cf_records, pc,
                    all_addresses, cleaned_addresses, idx, need, cycleLog >>

NextZone == Tick \/ GetZoneCall

SpecZone == InitZone /\ [][NextZone]_vars

(***************************************************************************)
(* Address updates.  An address is an ipaddress object (its family and its *)
(* canonical text); an address update is an object of one of the classes   *)
(* of models/address_update.py.  An object of the base class AddressUpdate *)
(* (any family other than IPv4 and IPv6) has no address and no rdtype.     *)
(***************************************************************************)
IPv4Address(text) == [version |-> 4, text |-> text]
IPv6Address(text) == [version |-> 6, text |-> text]
NoAddress == [version |-> 0, text |-> ""]

IPv4AddressUpdate(address) == [type |-> "IPv4AddressUpdate", address |-> address]
IPv6AddressUpdate(address) == [type |-> "IPv6AddressUpdate", address |-> address]
OtherAddressUpdate == [type |-> "AddressUpdate", address |-> NoAddress]

\* ipaddress: is_global of the addresses used here
is_global(address) == address.text \in {"8.8.8.8", "1.1.1.1", "2001:4860::1"}

Addresses ==
    { IPv4AddressUpdate(IPv4Address("10.0.0.1")),
      IPv4AddressUpdate(IPv4Address("192.168.1.1")),
      IPv4AddressUpdate(IPv4Address("8.8.8.8")),
      IPv4AddressUpdate(IPv4Address("1.1.1.1")),
      IPv6AddressUpdate(IPv6Address("fe80::1")),
      IPv6AddressUpdate(IPv6Address("2001:4860::1")),
      OtherAddressUpdate }

SeqsUpTo(S, n) == UNION { [1..k -> S] : k \in 0..n }

(***************************************************************************)
(* update_from_subscriptions, the cleaning of the collected addresses.     *)
(* cleaned_addresses is a dict keyed by type(addr); it is kept here as the *)
(* sequence of its values in the order the keys were inserted.             *)
(***************************************************************************)

\* mutant: the dict is keyed by the address, not by its class
PosOfAddress(cleaned, addr) ==
    IF \E i \in 1..Len(cleaned) : cleaned[i] = addr
    THEN CHOOSE i \in 1..Len(cleaned) : cleaned[i] = addr
    ELSE 0

\* where type(addr) is in cleaned_addresses; 0 when it is not
PosOfType(cleaned, addr) ==
    IF \E i \in 1..Len(cleaned) : cleaned[i].type = addr.type
    THEN CHOOSE i \in 1..Len(cleaned) : cleaned[i].type = addr.type
    ELSE 0

IsIP(addr) == addr.type = "IPv4AddressUpdate" \/ addr.type = "IPv6AddressUpdate"

\* mutant: a global address replaces whatever is kept
PreferAnyGlobal(addr, kept) ==
    IsIP(addr) /\ is_global(addr.address)

\* the elif: prefer global addresses over non-global ones
Prefer(addr, kept) ==
    IsIP(addr) /\ is_global(addr.address) /\ ~is_global(kept.address)

RECURSIVE Clean(_, _)
Clean(addrs, cleaned) ==
    IF addrs = << >> THEN cleaned
    ELSE LET addr == Head(addrs)
             pos == PosOfType(cleaned, addr)
         IN  IF pos = 0
             THEN Clean(Tail(addrs), Append(cleaned, addr))
             ELSE IF Prefer(addr, cleaned[pos])
             THEN Clean(Tail(addrs), [cleaned EXCEPT ![pos] = addr])
             ELSE Clean(Tail(addrs), cleaned)

(***************************************************************************)
(* The cleaning alone, on every collected sequence of up to MaxAddrs       *)
(* addresses.                                                              *)
(***************************************************************************)
InitDedup ==
    /\ hostname \in Hostnames
    /\ create_records = FALSE
    /\ now = StartTime
    /\ cf_zone = NoZone
    /\ cf_zone_last_update = DatetimeMin
    /\ cf_records = << >>
    /\ pc = "collected"
    /\ all_addresses \in SeqsUpTo(Addresses, MaxAddrs)
    /\ cleaned_addresses = << >>
    /\ idx = 0
    /\ need = "none"
    /\ cycleLog = << >>
    /\ zoneCalls = << >>
    /\ stored = NoStored
    /\ DnsIdle /\ ConfigIdle /\ FilterIdle /\ CompareIdle /\ DenIdle /\ RunIdle

CleanAddresses ==
    /\ pc = "collected"
    /\ cleaned_addresses' = Clean(all_addresses, << >>)
    /\ pc' = "cleaned"
    /\ UNCHANGED pipelineVars
    /\ UNCHANGED << hostname, create_records, now, cf_zone, cf_zone_last_update,
                    cf_records, all_addresses, idx, need, cycleLog, zoneCalls, stored >>

NextDedup == CleanAddresses

SpecDedup == InitDedup /\ [][NextDedup]_vars

(***************************************************************************)
(* Claims on the cleaning (SpecDedup).                                     *)
(***************************************************************************)
FamiliesOf(addrs) == { addrs[i].type : i \in 1..Len(addrs) }

PositionsOf(addrs, family) == { i \in 1..Len(addrs) : addrs[i].type = family }

First(positions) == CHOOSE i \in positions : \A j \in positions : i <= j

\* C3: after the cleaning the surviving addresses hold exactly one address of
\* each family that occurs in the collected sequence, none of any other
\* family, and every survivor is an element of the collected sequence.
C3_OnePerFamily ==
    pc = "cleaned" =>
        /\ \A f \in FamiliesOf(all_addresses) :
                Cardinality(PositionsOf(cleaned_addresses, f)) = 1
        /\ FamiliesOf(cleaned_addresses) = FamiliesOf(all_addresses)
        /\ \A i \in 1..Len(cleaned_addresses) :
                \E j \in 1..Len(all_addresses) : all_addresses[j] = cleaned_addresses[i]

\* three collected addresses of two families, two survivors
C3_Witness ==
    /\ pc = "cleaned"
    /\ Len(all_addresses) = 3
    /\ Len(cleaned_addresses) = 2
    /\ \E i \in 1..3 : all_addresses[i].type = "AddressUpdate"

\* C4: for each of the families IPv4 and IPv6, the survivor is the first
\* globally routable address of the family in the collected sequence when
\* there is one, and the first address of the family otherwise.
C4_PreferGlobal ==
    pc = "cleaned" =>
        \A f \in FamiliesOf(all_addresses) \cap {"IPv4AddressUpdate", "IPv6AddressUpdate"} :
            LET ofF == PositionsOf(all_addresses, f)
                globals == { i \in ofF : is_global(all_addresses[i].address) }
                want == IF globals # {} THEN First(globals) ELSE First(ofF)
            IN  \A i \in PositionsOf(cleaned_addresses, f) :
                    cleaned_addresses[i] = all_addresses[want]

\* a non-global address first, then two different global ones of its family:
\* the first global one survives
C4_Witness ==
    /\ pc = "cleaned"
    /\ Len(all_addresses) = 3
    /\ \A i \in 1..3 : all_addresses[i].type = "IPv4AddressUpdate"
    /\ ~is_global(all_addresses[1].address)
    /\ is_global(all_addresses[2].address)
    /\ is_global(all_addresses[3].address)
    /\ all_addresses[2] # all_addresses[3]
    /\ cleaned_addresses = << all_addresses[2] >>

(***************************************************************************)
(* Record kinds and address texts.                                         *)
(***************************************************************************)
\* dns.rdatatype.RdataType values
RdataType_A == 1
RdataType_TXT == 16
RdataType_AAAA == 28

\* RdataType.from_text raises UnknownRdatatype on any other text
KnownRdatatype(text) == text \in {"A", "AAAA", "TXT"}

\* mutant: AAAA is decoded as A
RdataType_from_text_A(text) ==
    CASE text \in {"A", "AAAA"} -> RdataType_A
      [] text = "TXT" -> RdataType_TXT

RdataType_from_text(text) ==
    CASE text = "A" -> RdataType_A
      [] text = "AAAA" -> RdataType_AAAA
      [] text = "TXT" -> RdataType_TXT

RdataType_to_text(rdtype) ==
    CASE rdtype = RdataType_A -> "A"
      [] rdtype = RdataType_AAAA -> "AAAA"
      [] rdtype = RdataType_TXT -> "TXT"

\* the class attribute rdtype; the base class AddressUpdate has none
HasRdtype(addr) == IsIP(addr)

rdtype(addr) ==
    IF addr.type = "IPv4AddressUpdate" THEN RdataType_A ELSE RdataType_AAAA

\* ipaddress.ip_address(text); any other text raises ValueError
ValidAddressText(text) ==
    text \in {"10.0.0.1", "192.168.1.1", "8.8.8.8", "1.1.1.1", "fe80::1",
              "2001:4860::1", "2001:4860:0::1"}

ip_address(text) ==
    CASE text = "2001:4860:0::1" -> IPv6Address("2001:4860::1")
      [] text \in {"fe80::1", "2001:4860::1"} -> IPv6Address(text)
      [] OTHER -> IPv4Address(text)

\* str(address)
address_str(address) == address.text

(***************************************************************************)
(* The registrar's records: dns_records.get, patch and post.               *)
(***************************************************************************)
Record(id, name, type, content) ==
    [id |-> id, name |-> name, type |-> type, content |-> content]

NoRecord == Record(0, Str(<< >>, FALSE), "", "")

\* dns_records.patch(zone, record, data): the record's content is overwritten
Patched(records, id, data) ==
    [i \in 1..Len(records) |->
        IF records[i].id = id
        THEN [records[i] EXCEPT !.content = data.content]
        ELSE records[i]]

NextRecordId(records) ==
    1 + Len(records)

\* dns_records.post(zone, data): a record is added
Posted(records, data) ==
    Append(records, Record(NextRecordId(records), data.name, data.type, data.content))

PatchCall(zone, record, content) ==
    [op |-> "patch", zone |-> zone.id, record |-> record.id,
     data |-> [content |-> content]]

\* mutant: every record is created with the kind A
PostCallAsA(zone, type, name, content) ==
    [op |-> "post", zone |-> zone.id, record |-> 0,
     data |-> [type |-> "A", name |-> name, content |-> content, ttl |-> AutoTTL]]

PostCall(zone, type, name, content) ==
    [op |-> "post", zone |-> zone.id, record |-> 0,
     data |-> [type |-> type, name |-> name, content |-> content, ttl |-> AutoTTL]]

(***************************************************************************)
(* CloudflareDNSUpdater._get_record_for, needs_update and update.          *)
(* env is what the registrar does during the call: env.table its zone      *)
(* answers, env.listFails and env.writeFails whether the record listing /  *)
(* the patch or post raises CloudFlareAPIError.                            *)
(***************************************************************************)
\* mutant: the first record of the hostname is taken, whatever its kind
RECURSIVE ScanFirstNamed(_, _, _)
ScanFirstNamed(records, host, addr) ==
    IF records = << >> THEN [exc |-> "None", record |-> NoRecord]
    ELSE IF dns_names_equal(Head(records).name, host)
    THEN [exc |-> "None", record |-> Head(records)]
    ELSE ScanFirstNamed(Tail(records), host, addr)

RECURSIVE ScanRecords(_, _, _)
ScanRecords(records, host, addr) ==
    IF records = << >> THEN [exc |-> "None", record |-> NoRecord]
    ELSE LET record == Head(records)
         IN  IF ~dns_names_equal(record.name, host)
             THEN ScanRecords(Tail(records), host, addr)
             ELSE IF ~KnownRdatatype(record.type)
             THEN ScanRecords(Tail(records), host, addr)
             ELSE IF ~HasRdtype(addr)
             THEN [exc |-> "AttributeError", record |-> NoRecord]
             ELSE IF RdataType_from_text(record.type) = rdtype(addr)
             THEN [exc |-> "None", record |-> record]
             ELSE ScanRecords(Tail(records), host, addr)

\* mutant: a listing that fails is taken for an empty listing
RecordInZoneSwallowed(z, host, env, records, addr) ==
    IF z.exc # "None"
    THEN [exc |-> z.exc, msg |-> z.msg, record |-> NoRecord, z |-> z, listed |-> FALSE]
    ELSE [exc |-> "None", msg |-> "", record |-> NoRecord, z |-> z, listed |-> FALSE]

\* the listing went through: the record found in it, or the exception
Listed(found, z) ==
    [exc |-> found.exc, msg |-> "", record |-> found.record, z |-> z, listed |-> TRUE]

\* the part of _get_record_for after cf_zone = self._get_zone()
RecordInZone(z, host, env, records, addr) ==
    IF z.exc # "None"
    THEN [exc |-> z.exc, msg |-> z.msg, record |-> NoRecord, z |-> z, listed |-> FALSE]
    ELSE IF env.listFails
    THEN [exc |-> "CloudFlareAPIError", msg |-> "dns_records.get", record |-> NoRecord,
          z |-> z, listed |-> FALSE]
    ELSE Listed(ScanRecords(records, host, addr), z)

_get_record_for(cache, host, env, t, records, addr) ==
    RecordInZone(_get_zone(cache, host, env.table, t), host, env, records, addr)

\* the outcome of a call of needs_update or update: what it returned or
\* raised, the registrar's listing it saw, the record it found in it and the
\* remote writes it issued
Outcome(op, addr, result, exc, msg, g, records, writes) ==
    [op |-> op, addr |-> addr, result |-> result, exc |-> exc, msg |-> msg,
     listed |-> g.listed, records |-> IF g.listed THEN records ELSE << >>,
     record |-> g.record, writes |-> writes]

\* mutant: the stored text is compared with the text of the candidate
DiffersAsText(content, address) == content # address_str(address)

\* ipaddress.ip_address(cf_record["content"]) != address_update.address
Differs(content, address) == ip_address(content) # address

\* mutant: an update is wanted whatever the record holds
NeedsAlways(g, addr) == [value |-> "True", exc |-> "None", msg |-> ""]

\* the part of needs_update after cf_record = self._get_record_for(...)
NeedsFor(g, addr) ==
    IF g.exc # "None" THEN [value |-> "raised", exc |-> g.exc, msg |-> g.msg]
    ELSE IF g.record = NoRecord THEN [value |-> "True", exc |-> "None", msg |-> ""]
    ELSE IF ~ValidAddressText(g.record.content)
    THEN [value |-> "raised", exc |-> "ValueError", msg |-> ""]
    ELSE IF Differs(g.record.content, addr.address)
    THEN [value |-> "True", exc |-> "None", msg |-> ""]
    ELSE [value |-> "False", exc |-> "None", msg |-> ""]

NeedsOutcome(g, result, records, addr) ==
    [out |-> Outcome("needs_update", addr, result.value, result.exc, result.msg,
                     g, records, << >>),
     cache |-> g.z.cache, zs |-> << g.z >>, records |-> records]

NeedsAfterRecord(g, records, addr) ==
    NeedsOutcome(g, NeedsFor(g, addr), records, addr)

needs_update(cache, host, env, t, records, addr) ==
    NeedsAfterRecord(_get_record_for(cache, host, env, t, records, addr), records, addr)

RecordMissing == "DNS record missing"

\* update raises
Raised(exc, msg, g, zs, records, addr, writes) ==
    [out |-> Outcome("update", addr, "raised", exc, msg, g, records, writes),
     cache |-> g.z.cache, zs |-> zs, records |-> records]

\* update returns
Returned(g, zs, records, addr, writes, after) ==
    [out |-> Outcome("update", addr, "None", "None", "", g, records, writes),
     cache |-> g.z.cache, zs |-> zs, records |-> after]

\* the part of update after cf_record = self._get_record_for(address_update)
UpdateAfterRecord(cf_zone1, g, host, create, env, records, addr) ==
    LET zs == << cf_zone1, g.z >>
        patch == PatchCall(cf_zone1.zone, g.record, address_str(addr.address))
        post == PostCall(cf_zone1.zone, RdataType_to_text(rdtype(addr)), host,
                         address_str(addr.address))
    IN  IF g.exc # "None" THEN Raised(g.exc, g.msg, g, zs, records, addr, << >>)
        ELSE IF g.record # NoRecord
        THEN IF env.writeFails
             THEN Raised("CloudFlareAPIError", "dns_records.patch", g, zs, records, addr,
                         << patch >>)
             ELSE Returned(g, zs, records, addr, << patch >>,
                           Patched(records, patch.record, patch.data))
        ELSE IF create
        THEN IF ~HasRdtype(addr)
             THEN Raised("AttributeError", "", g, zs, records, addr, << >>)
             ELSE IF env.writeFails
             THEN Raised("CloudFlareAPIError", "dns_records.post", g, zs, records, addr,
                         << post >>)
             ELSE Returned(g, zs, records, addr, << post >>, Posted(records, post.data))
        ELSE Raised("DDNSWolfUserException", RecordMissing, g, zs, records, addr, << >>)

\* no record was looked for
NotListed(z) ==
    [exc |-> "None", msg |-> "", record |-> NoRecord, z |-> z, listed |-> FALSE]

\* the part of update after cf_zone = self._get_zone()
UpdateAfterZone(cf_zone1, host, create, env, t, records, addr) ==
    IF cf_zone1.exc # "None"
    THEN Raised(cf_zone1.exc, cf_zone1.msg, NotListed(cf_zone1), << cf_zone1 >>, records,
                addr, << >>)
    ELSE UpdateAfterRecord(cf_zone1,
                           _get_record_for(cf_zone1.cache, host, env, t, records, addr),
                           host, create, env, records, addr)

update(cache, host, create, env, t, records, addr) ==
    UpdateAfterZone(_get_zone(cache, host, env.table, t), host, create, env, t, records,
                    addr)

(***************************************************************************)
(* DynamicDNSUpdater.update_from_subscriptions, one cycle of a Cloudflare  *)
(* updater.  pc is "idle" before the first cycle, "loop" inside the loop   *)
(* over the cleaned addresses, "done" after a cycle that returned and      *)
(* "raised" after one that raised (the polling loop ends with it).         *)
(***************************************************************************)
MaxCycleAddrs == 2

CycleHostnames == { Str(<<"www", "Example", "COM">>, FALSE) }

CycleAddresses ==
    { IPv4AddressUpdate(IPv4Address("10.0.0.1")),
      IPv4AddressUpdate(IPv4Address("8.8.8.8")),
      IPv6AddressUpdate(IPv6Address("2001:4860::1")),
      OtherAddressUpdate }

\* the registrar's records before the first cycle
CycleRecords ==
    LET own == Str(<<"www", "example", "com">>, FALSE)
        other == Str(<<"ftp", "example", "com">>, FALSE)
    IN  { << >>,
          << Record(1, own, "A", "10.0.0.1") >>,
          << Record(1, own, "AAAA", "2001:4860:0::1"),
             Record(2, own, "TXT", "v=spf1"),
             Record(3, own, "A", "8.8.8.8") >>,
          << Record(1, other, "A", "8.8.8.8"),
             Record(2, own, "CAA9", "0"),
             Record(3, own, "AAAA", "fe80::1") >> }

\* the registrar holds the zone example.com, or no zone this token can read
CycleTables ==
    { [n \in 0..3 |-> IF n = 2 THEN "match" ELSE IF n = 3 THEN "api_error" ELSE "empty"],
      [n \in 0..3 |-> IF n = 0 THEN "api_error" ELSE "other"] }

Envs(cache, t, lists, writes) ==
    { [table |-> tb, listFails |-> lf, writeFails |-> wf] :
        tb \in IF IsFresh(cache, t) THEN { NoTable } ELSE CycleTables,
        lf \in lists, wf \in writes }

\* sorted() of a list of address updates raises TypeError when it has to
\* compare an object of the base class: it defines no order, and the order of
\* IPv4AddressUpdate and IPv6AddressUpdate returns NotImplemented for it
SortedRaises(addrs) ==
    Len(addrs) >= 2 /\ \E i \in 1..Len(addrs) : ~IsIP(addrs[i])

\* the history of the _get_zone calls of one operation
RECURSIVE ZoneCallsOf(_, _, _, _)
ZoneCallsOf(zs, cache, st, t) ==
    IF zs = << >> THEN << >>
    ELSE << ZoneCall(cache, st, t, Head(zs)) >>
            \o ZoneCallsOf(Tail(zs), Head(zs).cache, StoredAfter(st, t, Head(zs)), t)

RECURSIVE StoredAfterAll(_, _, _)
StoredAfterAll(zs, st, t) ==
    IF zs = << >> THEN st
    ELSE StoredAfterAll(Tail(zs), StoredAfter(st, t, Head(zs)), t)

Init ==
    /\ hostname \in CycleHostnames
    /\ create_records \in BOOLEAN
    /\ now = StartTime
    /\ cf_zone = NoZone
    /\ cf_zone_last_update = DatetimeMin
    /\ cf_records \in CycleRecords
    /\ CycleIdle
    /\ zoneCalls = << >>
    /\ stored = NoStored
    /\ DnsIdle /\ ConfigIdle /\ FilterIdle /\ CompareIdle /\ DenIdle /\ RunIdle

\* a provider's provide_addresses() raises: nothing is collected
PullRaises ==
    /\ pc \in {"idle", "done"}
    /\ pc' = "raised"
    /\ all_addresses' = << >>
    /\ cleaned_addresses' = << >>
    /\ idx' = 0
    /\ need' = "none"
    /\ cycleLog' = << >>
    /\ zoneCalls' = << >>
    /\ UNCHANGED pipelineVars
    /\ UNCHANGED << hostname, create_records, now, cf_zone, cf_zone_last_update,
                    cf_records, stored >>

\* the addresses are collected and cleaned, and the two sorted lists compared
StartCycle ==
    \E addrs \in SeqsUpTo(CycleAddresses, MaxCycleAddrs) :
        /\ pc \in {"idle", "done"}
        /\ all_addresses' = addrs
        /\ cleaned_addresses' = Clean(addrs, << >>)
        /\ pc' = IF SortedRaises(addrs) \/ SortedRaises(Clean(addrs, << >>))
                 THEN "raised" ELSE "loop"
        /\ idx' = 1
        /\ need' = "none"
        /\ cycleLog' = << >>
        /\ zoneCalls' = << >>
        /\ UNCHANGED pipelineVars
        /\ UNCHANGED << hostname, create_records, now, cf_zone, cf_zone_last_update,
                        cf_records, stored >>

\* mutant: update is called unless needs_update returned False
UpdateUnlessFalse(out) == out.result # "False"

\* if self.needs_update(addr):
UpdateWanted(out) == out.result = "True"

\* the outcome of a call, kept with what the registrar was to do during it
Logged(out, env) ==
    [op |-> out.op, addr |-> out.addr, result |-> out.result, exc |-> out.exc,
     msg |-> out.msg, listed |-> out.listed, records |-> out.records,
     record |-> out.record, writes |-> out.writes,
     listFails |-> env.listFails, writeFails |-> env.writeFails]

\* the try block has called needs_update, with outcome r
NeedsUpdateDone(r, cache, env) ==
    /\ cf_zone' = r.cache.zone
    /\ cf_zone_last_update' = r.cache.last
    /\ cycleLog' = Append(cycleLog, Logged(r.out, env))
    /\ zoneCalls' = ZoneCallsOf(r.zs, cache, stored, now)
    /\ stored' = StoredAfterAll(r.zs, stored, now)
    /\ need' = IF UpdateWanted(r.out) THEN "update" ELSE "none"
    /\ idx' = IF UpdateWanted(r.out) THEN idx ELSE idx + 1

\* self.needs_update(addr) in the try block
NeedsUpdateCall ==
    /\ pc = "loop"
    /\ idx <= Len(cleaned_addresses)
    /\ need = "none"
    /\ \E env \in Envs([zone |-> cf_zone, last |-> cf_zone_last_update], now,
                       BOOLEAN, {FALSE}) :
            NeedsUpdateDone(needs_update([zone |-> cf_zone, last |-> cf_zone_last_update],
                                         hostname, env, now, cf_records,
                                         cleaned_addresses[idx]),
                            [zone |-> cf_zone, last |-> cf_zone_last_update], env)
    /\ UNCHANGED pipelineVars
    /\ UNCHANGED << hostname, create_records, now, cf_records, pc, all_addresses,
                    cleaned_addresses >>

\* the try block has called update, with outcome r
UpdateDone(r, cache, env) ==
    /\ cf_zone' = r.cache.zone
    /\ cf_zone_last_update' = r.cache.last
    /\ cf_records' = r.records
    /\ cycleLog' = Append(cycleLog, Logged(r.out, env))
    /\ zoneCalls' = ZoneCallsOf(r.zs, cache, stored, now)
    /\ stored' = StoredAfterAll(r.zs, stored, now)

\* self.update(addr) in the try block
UpdateCall ==
    /\ pc = "loop"
    /\ idx <= Len(cleaned_addresses)
    /\ need = "update"
    /\ \E env \in Envs([zone |-> cf_zone, last |-> cf_zone_last_update], now,
                       BOOLEAN, BOOLEAN) :
            UpdateDone(update([zone |-> cf_zone, last |-> cf_zone_last_update], hostname,
                              create_records, env, now, cf_records,
                              cleaned_addresses[idx]),
                       [zone |-> cf_zone, last |-> cf_zone_last_update], env)
    /\ need' = "none"
    /\ idx' = idx + 1
    /\ UNCHANGED pipelineVars
    /\ UNCHANGED << hostname, create_records, now, pc, all_addresses,
                    cleaned_addresses >>

\* the loop is over: update_from_subscriptions returns
FinishCycle ==
    /\ pc = "loop"
    /\ idx > Len(cleaned_addresses)
    /\ pc' = "done"
    /\ UNCHANGED pipelineVars
    /\ UNCHANGED << hostname, create_records, now, cf_zone, cf_zone_last_update,
                    cf_records, all_addresses, cleaned_addresses, idx, need, cycleLog,
                    zoneCalls, stored >>

\* between two rounds the polling loop sleeps; here for as long as a cached
\* zone stays fresh
Sleep ==
    /\ pc \in {"idle", "done"}
    /\ now + ZoneFreshHours <= MaxTime
    /\ now' = now + ZoneFreshHours
    /\ UNCHANGED pipelineVars
    /\ UNCHANGED << hostname, create_records, cf_zone, cf_zone_last_update, cf_records,
                    pc, all_addresses, cleaned_addresses, idx, need, cycleLog,
                    zoneCalls, stored >>

Next == Sleep \/ PullRaises \/ StartCycle \/ NeedsUpdateCall \/ UpdateCall \/ FinishCycle

Spec == Init /\ [][Next]_vars

(***************************************************************************)
(* Claims on zone resolution (SpecZone).                                   *)
(***************************************************************************)

\* the names a hostname can lie in, longest first, down to the root
SuffixChain(host) ==
    LET n == Len(host.labels)
    IN  [i \in 1..(n + 1) |-> Str(SubSeq(host.labels, i, n), TRUE)]

\* two text names are the same DNS name: same labels up to case, the root dot
\* at the end making no difference
SameName(t1, t2) ==
    [i \in 1..Len(t1.labels) |-> Lower(t1.labels[i])]
        = [i \in 1..Len(t2.labels) |-> Lower(t2.labels[i])]

\* the registrar answered the query for name with a zone of exactly that name
Recognised(reply, name) ==
    /\ ~reply.error
    /\ \E j \in 1..Len(reply.zones) : SameName(reply.zones[j].name, name)

\* C6: once a zone was resolved and cached at time t, every zone resolution
\* before t + 4 hours returns that zone without a remote zone query, and every
\* zone resolution at or after t + 4 hours issues a remote zone query.
C6_CacheFreshness ==
    \A i \in 1..Len(zoneCalls) :
        LET c == zoneCalls[i]
        IN  c.storedBefore.zone # NoZone =>
                /\ c.at < c.storedBefore.at + 4 =>
                        /\ c.queries = << >>
                        /\ c.exc = "None"
                        /\ c.zone = c.storedBefore.zone
                /\ c.at >= c.storedBefore.at + 4 => c.queries # << >>

\* a resolution exactly 4 hours after the zone was cached, which queries again
C6_Witness ==
    \E i \in 1..Len(zoneCalls) :
        /\ zoneCalls[i].storedBefore.zone # NoZone
        /\ zoneCalls[i].at = zoneCalls[i].storedBefore.at + 4
        /\ zoneCalls[i].queries # << >>

\* C35: a cache hit leaves the refresh timestamp as it was; the timestamp
\* changes only in a call whose remote query found a zone, and is then the
\* time of that call; so the timestamp of a cached zone is the time of the
\* last remote match, and a resolution at or after 4 hours from that match
\* issues a remote zone query, however many hits came in between.
C35_NonSlidingExpiry ==
    /\ \A i \in 1..Len(zoneCalls) :
            LET c == zoneCalls[i]
            IN  /\ c.queries = << >> => c.after = c.before
                /\ c.after.last # c.before.last =>
                        /\ c.queries # << >>
                        /\ c.exc = "None"
                        /\ c.after.last = c.at
                /\ (c.storedBefore.zone # NoZone
                        /\ c.at >= c.storedBefore.at + ZoneFreshHours) =>
                            c.queries # << >>
    /\ cf_zone # NoZone => cf_zone_last_update = stored.at

\* a hit three hours after the remote match, which left the timestamp at the
\* time of the match
C35_Witness ==
    \E i \in 1..Len(zoneCalls) :
        /\ zoneCalls[i].queries = << >>
        /\ zoneCalls[i].zone # NoZone
        /\ zoneCalls[i].at = zoneCalls[i].storedBefore.at + 3
        /\ cf_zone_last_update = zoneCalls[i].storedBefore.at
        /\ now = zoneCalls[i].at

\* C36: a zone resolution that fails leaves the cached zone and timestamp
\* as they were before the call and returns no zone; a zone returned
\* without a remote query is the zone of the last remote match and is less
\* than 4 hours old; and the resolution after a failed one queries again,
\* the full hostname first.
C36_FailureNotCached ==
    [][zoneCalls' # zoneCalls =>
            LET c == zoneCalls'[1]
            IN  /\ c.exc # "None" =>
                        /\ c.zone = NoZone
                        /\ c.after = c.before
                        /\ cf_zone' = cf_zone
                        /\ cf_zone_last_update' = cf_zone_last_update
                /\ (c.exc = "None" /\ c.queries = << >>) =>
                        /\ c.zone = stored.zone
                        /\ c.zone # NoZone
                        /\ c.at < stored.at + ZoneFreshHours
                /\ (zoneCalls # << >> /\ zoneCalls[1].exc # "None") =>
                        /\ c.queries # << >>
                        /\ c.queries[1] = SuffixChain(hostname)[1]]_vars

\* a resolution failed while the cache held an expired zone, and the cache
\* still holds that zone with its old timestamp
C36_Witness ==
    /\ zoneCalls # << >>
    /\ zoneCalls[1].exc # "None"
    /\ cf_zone # NoZone
    /\ cf_zone = stored.zone
    /\ cf_zone_last_update = stored.at
    /\ now >= stored.at + ZoneFreshHours

\* C7: on a cache miss the names queried are the full hostname and then each
\* parent in turn, each once and in that order; the search stops at the first
\* name the registrar answers with a zone of exactly that name, that zone is
\* returned, and nothing is queried after it.
C7_AscentOrder ==
    \A i \in 1..Len(zoneCalls) :
        LET c == zoneCalls[i]
            chain == SuffixChain(hostname)
            k == Len(c.queries)
        IN  k > 0 =>
                /\ k <= Len(chain)
                /\ \A j \in 1..k : c.queries[j] = chain[j]
                /\ \A j \in 1..(k - 1) : ~Recognised(c.replies[j], chain[j])
                /\ Recognised(c.replies[k], chain[k]) =>
                        /\ c.exc = "None"
                        /\ SameName(c.zone.name, chain[k])
                        /\ \E z \in 1..Len(c.replies[k].zones) : c.replies[k].zones[z] = c.zone
                /\ c.exc = "None" => Recognised(c.replies[k], chain[k])

\* the ascent passed two names the registrar does not recognise and stopped at
\* the third, which it does
C7_Witness ==
    \E i \in 1..Len(zoneCalls) :
        /\ Len(zoneCalls[i].queries) = 3
        /\ Len(hostname.labels) = 3
        /\ zoneCalls[i].exc = "None"
        /\ zoneCalls[i].replies[2].zones # << >>

\* C8: if the registrar recognises no suffix of the hostname, the root
\* included, zone resolution fails with the "could not find the zone" user
\* error; and it fails only after every suffix has been queried.
C8_NotFound ==
    \A i \in 1..Len(zoneCalls) :
        LET c == zoneCalls[i]
            chain == SuffixChain(hostname)
            none == \A j \in 1..Len(c.queries) : ~Recognised(c.replies[j], c.queries[j])
        IN  c.queries # << >> =>
                /\ none => /\ c.exc = "DDNSWolfUserException"
                           /\ c.msg = "Could not find the zone"
                           /\ c.zone = NoZone
                /\ c.exc # "None" => /\ none
                                     /\ c.queries = chain
                                     /\ c.exc = "DDNSWolfUserException"

\* a failed resolution of a three-label name, after four queries
C8_Witness ==
    \E i \in 1..Len(zoneCalls) :
        /\ zoneCalls[i].exc = "DDNSWolfUserException"
        /\ Len(zoneCalls[i].queries) = 4
        /\ zoneCalls[i].replies[1].error
        /\ ~zoneCalls[i].replies[2].error

\* C9: whenever the cached zone is present, its refresh timestamp is present
\* (not datetime.min) and is the time at which that zone was stored.
C9_CacheInvariant ==
    cf_zone # NoZone =>
        /\ cf_zone_last_update # DatetimeMin
        /\ cf_zone_last_update = stored.at
        /\ cf_zone = stored.zone
        /\ cf_zone_last_update <= now

\* a zone cached earlier, replaced later by another one
C9_Witness ==
    /\ cf_zone # NoZone
    /\ zoneCalls # << >>
    /\ zoneCalls[1].before.zone # NoZone
    /\ zoneCalls[1].before.zone # cf_zone
    /\ now > cf_zone_last_update

(***************************************************************************)
(* Claims on the cycle (Spec).                                             *)
(***************************************************************************)

\* the record kind of a family, as the registrar writes it
KindOf(addr) == IF addr.type = "IPv4AddressUpdate" THEN "A" ELSE "AAAA"

\* the positions, in a listing of the registrar, of the records of the
\* hostname and of the kind of the address
RecordsFor(records, host, addr) ==
    { i \in 1..Len(records) :
        /\ IsIP(addr)
        /\ SameName(records[i].name, host)
        /\ records[i].type = KindOf(addr) }

\* the registrar holds a record for the address, and it stores that address
StoresCandidate(records, host, addr) ==
    /\ RecordsFor(records, host, addr) # {}
    /\ ip_address(records[First(RecordsFor(records, host, addr))].content) = addr.address

LogOf(op, addr) ==
    { k \in 1..Len(cycleLog) : cycleLog[k].op = op /\ cycleLog[k].addr = addr }

Survivors == { cleaned_addresses[i] : i \in 1..Len(cleaned_addresses) }

\* C1: in a cycle, a patch or a create is issued for a surviving address only
\* if needs_update saw the record of the hostname and of the address's kind
\* absent, or storing another address; when the record stores the candidate,
\* neither is issued.
C1_WriteOnlyOnDisagreement ==
    \A k \in 1..Len(cycleLog) :
        LET e == cycleLog[k]
        IN  /\ e.writes # << >> =>
                /\ e.op = "update"
                /\ e.addr \in Survivors
                /\ k > 1
                /\ cycleLog[k - 1].op = "needs_update"
                /\ cycleLog[k - 1].addr = e.addr
                /\ cycleLog[k - 1].listed
                /\ ~StoresCandidate(cycleLog[k - 1].records, hostname, e.addr)
            /\ (e.op = "needs_update" /\ e.listed
                    /\ StoresCandidate(e.records, hostname, e.addr)) =>
                \A j \in LogOf("update", e.addr) : FALSE

\* the registrar stores the candidate in another text than the candidate's
\* own and nothing is written for it, while the next address is written
C1_Witness ==
    \E k \in 1..Len(cycleLog) :
        /\ cycleLog[k].op = "needs_update"
        /\ cycleLog[k].result = "False"
        /\ cycleLog[k].record.content # address_str(cycleLog[k].addr.address)
        /\ \E j \in (k + 1)..Len(cycleLog) : cycleLog[j].writes # << >>

\* C2: in every cycle needs_update is called for every surviving address, and
\* update for every one needs_update returned true for, whatever failed for
\* the addresses before it.
C2_EverySurvivorProcessed ==
    pc \in {"done", "raised"} =>
        \A a \in Survivors :
            /\ LogOf("needs_update", a) # {}
            /\ \A k \in LogOf("needs_update", a) :
                    cycleLog[k].result = "True" => LogOf("update", a) # {}

\* C2, within the loop: once the loop over the surviving addresses is entered,
\* every one of them is processed, whatever was raised for the ones before it.
C2_IsolatedInLoop ==
    pc = "done" =>
        \A a \in Survivors :
            /\ LogOf("needs_update", a) # {}
            /\ \A k \in LogOf("needs_update", a) :
                    cycleLog[k].result = "True" => LogOf("update", a) # {}

\* C24: whatever was collected (duplicates within a family, both families,
\* addresses of other families), the comparison of the sorted collected and
\* surviving addresses does not fail, and every surviving address is
\* processed after it.
C24_DroppedDuplicatesNonFatal ==
    all_addresses # << >> =>
        /\ pc # "raised"
        /\ pc = "done" => \A a \in Survivors : LogOf("needs_update", a) # {}

\* the zone was resolved in the call, so that the call went on to the listing
ZoneResolved(e) == ~(e.exc = "DDNSWolfUserException" /\ e.msg = ZoneNotFound)

\* C25: an invalid-request failure of the record listing, of the patch or of
\* the create makes the needs_update or update call fail with it, and after
\* it no call, and so no remote write, is made for that address in the cycle;
\* a failure of a zone query is never what a call fails with.
C25_InvalidRequestOutsideAscent ==
    \A k \in 1..Len(cycleLog) :
        LET e == cycleLog[k]
            failed == /\ e.result = "raised"
                      /\ e.exc = "CloudFlareAPIError"
                      /\ \A j \in (k + 1)..Len(cycleLog) : cycleLog[j].addr # e.addr
        IN  /\ (ZoneResolved(e) /\ e.listFails) =>
                    failed /\ e.msg = "dns_records.get" /\ e.writes = << >>
            /\ (e.op = "update" /\ e.writeFails /\ e.writes # << >>) =>
                    /\ failed
                    /\ Len(e.writes) = 1
                    /\ e.msg = IF e.writes[1].op = "patch" THEN "dns_records.patch"
                                                           ELSE "dns_records.post"
            /\ e.exc = "CloudFlareAPIError" =>
                    e.msg \in {"dns_records.get", "dns_records.patch", "dns_records.post"}

\* the listing failed in needs_update for the first address, and the patch
\* or create failed in update for the second
C25_Witness ==
    /\ Len(cycleLog) = 3
    /\ cycleLog[1].op = "needs_update" /\ cycleLog[1].msg = "dns_records.get"
    /\ cycleLog[3].op = "update" /\ cycleLog[3].exc = "CloudFlareAPIError"
    /\ cycleLog[3].writes # << >>
    /\ pc = "done"

\* C5: in a cycle update(a) is called only for a surviving address, at most
\* once, and right after needs_update(a) returned true; it is not called when
\* needs_update(a) returned false or raised.
C5_UpdateOnlyAfterNeed ==
    \A k \in 1..Len(cycleLog) :
        LET e == cycleLog[k]
        IN  /\ e.op = "update" =>
                /\ e.addr \in Survivors
                /\ LogOf("update", e.addr) = {k}
                /\ k > 1
                /\ cycleLog[k - 1].op = "needs_update"
                /\ cycleLog[k - 1].addr = e.addr
                /\ cycleLog[k - 1].result = "True"
            /\ (e.op = "needs_update" /\ e.result # "True") =>
                LogOf("update", e.addr) = {}

\* needs_update raised for the first survivor and returned true for the
\* second, which was then updated
C5_Witness ==
    /\ Len(cycleLog) = 3
    /\ cycleLog[1].result = "raised"
    /\ cycleLog[2].result = "True"
    /\ cycleLog[3].op = "update"
    /\ cycleLog[3].writes # << >>

\* C10: when update finds the record of the hostname and of the address's
\* kind, it issues exactly one patch, on that record, whose data is the
\* candidate address as the content and nothing else, and no create.
C10_PatchExisting ==
    \A k \in 1..Len(cycleLog) :
        LET e == cycleLog[k]
            at == RecordsFor(e.records, hostname, e.addr)
        IN  (e.op = "update" /\ e.listed /\ at # {}) =>
                /\ Len(e.writes) = 1
                /\ e.writes[1].op = "patch"
                /\ e.writes[1].record = e.records[First(at)].id
                /\ e.writes[1].data = [content |-> e.addr.address.text]

\* a patch on the third listed record, the first two being of another kind
C10_Witness ==
    \E k \in 1..Len(cycleLog) :
        /\ cycleLog[k].op = "update"
        /\ cycleLog[k].result = "None"
        /\ cycleLog[k].writes # << >>
        /\ cycleLog[k].writes[1].op = "patch"
        /\ cycleLog[k].writes[1].record = 3

\* C11: when update finds no record of the hostname and of the address's
\* kind: if creating records is allowed it issues exactly one create, whose
\* data is the address's kind, the configured hostname, the candidate address
\* as the content and the automatic TTL; if it is not allowed it raises the
\* user error about the missing record and issues no create and no patch.
C11_CreateWhenAbsent ==
    \A k \in 1..Len(cycleLog) :
        LET e == cycleLog[k]
        IN  (e.op = "update" /\ e.listed /\ IsIP(e.addr)
                /\ RecordsFor(e.records, hostname, e.addr) = {}) =>
                IF create_records
                THEN /\ Len(e.writes) = 1
                     /\ e.writes[1].op = "post"
                     /\ e.writes[1].data = [type |-> KindOf(e.addr), name |-> hostname,
                                            content |-> e.addr.address.text,
                                            ttl |-> AutoTTL]
                ELSE /\ e.result = "raised"
                     /\ e.exc = "DDNSWolfUserException"
                     /\ e.msg = RecordMissing
                     /\ e.writes = << >>

\* an AAAA record was created for an IPv6 address that had no record
C11_Witness ==
    \E k \in 1..Len(cycleLog) :
        /\ cycleLog[k].op = "update"
        /\ cycleLog[k].result = "None"
        /\ cycleLog[k].addr.type = "IPv6AddressUpdate"
        /\ cycleLog[k].writes # << >>
        /\ cycleLog[k].writes[1].op = "post"
        /\ cycleLog[k].writes[1].data.type = "AAAA"

\* C12: the record _get_record_for finds is the first one, in the order of the
\* registrar's listing, whose name is the configured hostname (up to case and
\* the root dot) and whose kind is the kind asked for, and no record when the
\* listing has none; a listed record of an unrecognised kind is passed over,
\* it neither makes the lookup raise nor hides a matching record after it.
C12_FirstMatchingRecord ==
    \A k \in 1..Len(cycleLog) :
        LET e == cycleLog[k]
            at == RecordsFor(e.records, hostname, e.addr)
        IN  (e.listed /\ IsIP(e.addr)) =>
                /\ e.record = IF at = {} THEN NoRecord ELSE e.records[First(at)]
                /\ e.op = "needs_update" => e.exc = "None"

\* the record found is the third listed, behind a record of another name and
\* a record of the hostname whose kind is not recognised
C12_Witness ==
    \E k \in 1..Len(cycleLog) :
        /\ cycleLog[k].listed
        /\ Len(cycleLog[k].records) = 3
        /\ ~KnownRdatatype(cycleLog[k].records[2].type)
        /\ SameName(cycleLog[k].records[2].name, hostname)
        /\ cycleLog[k].record = cycleLog[k].records[3]

(***************************************************************************)
(* DynamicDNSUpdater.needs_update, the default change detection: the       *)
(* configured name is resolved by DNS and the answers compared with the    *)
(* address.  The resolver is the environment: dns_reply is what            *)
(* resolver.resolve does, an exception or the answers in their order.      *)
(***************************************************************************)
MaxAnswers == 2

\* the updater is not running
UpdaterIdle ==
    /\ hostname = Str(<<"example", "com">>, TRUE)
    /\ create_records = FALSE
    /\ now = StartTime
    /\ cf_zone = NoZone
    /\ cf_zone_last_update = DatetimeMin
    /\ cf_records = << >>
    /\ CycleIdle
    /\ zoneCalls = << >>
    /\ stored = NoStored

updaterVars ==
    << hostname, create_records, now, cf_zone, cf_zone_last_update, cf_records, pc,
       all_addresses, cleaned_addresses, idx, need, cycleLog, zoneCalls, stored >>

\* one answer of the resolver
Answer(type, address) == [rdtype |-> type, address |-> address]

\* what resolver.resolve does: it raises, or returns up to MaxAnswers answers
DnsReplies ==
    LET answers == { Answer(RdataType_A, "8.8.8.8"), Answer(RdataType_A, "10.0.0.1"),
                     Answer(RdataType_AAAA, "2001:4860:0::1"),
                     Answer(RdataType_AAAA, "fe80::1") }
    IN  { [exc |-> "NXDOMAIN", answers |-> << >>] }
            \cup { [exc |-> "None", answers |-> a] : a \in SeqsUpTo(answers, MaxAnswers) }

Unsupported == "Unsupported address update"

\* not isinstance(a, IPv4AddressUpdate) or isinstance(a, IPv6AddressUpdate)
UnsupportedAddress(addr) ==
    ~(addr.type = "IPv4AddressUpdate") \/ addr.type = "IPv6AddressUpdate"

\* for answer in answers: the first answer of the address's rdtype decides
RECURSIVE AnswerLoop(_, _)
AnswerLoop(answers, addr) ==
    IF answers = << >> THEN [value |-> "True", exc |-> "None", msg |-> ""]
    ELSE IF Head(answers).rdtype = rdtype(addr)
    THEN IF ip_address(Head(answers).address) # addr.address
         THEN [value |-> "True", exc |-> "None", msg |-> ""]
         ELSE [value |-> "False", exc |-> "None", msg |-> ""]
    ELSE AnswerLoop(Tail(answers), addr)

DynamicDNSUpdater_needs_update(addr, reply) ==
    IF UnsupportedAddress(addr)
    THEN [value |-> "raised", exc |-> "Exception", msg |-> Unsupported]
    ELSE IF reply.exc # "None"
    THEN [value |-> "raised", exc |-> reply.exc, msg |-> ""]
    ELSE AnswerLoop(reply.answers, addr)

InitDns ==
    /\ UpdaterIdle
    /\ ConfigIdle
    /\ FilterIdle
    /\ CompareIdle
    /\ DenIdle
    /\ RunIdle
    /\ dns_address \in Addresses
    /\ dns_reply \in DnsReplies
    /\ dns_result = NotCalled

\* self.needs_update(address_update) of an updater that keeps the default
DnsNeedsUpdate ==
    /\ dns_result = NotCalled
    /\ dns_result' = DynamicDNSUpdater_needs_update(dns_address, dns_reply)
    /\ UNCHANGED << dns_address, dns_reply, updaterVars, configVars, filterVars,
                    compareVars,
                    denVars,
                    runVars >>

SpecDns == InitDns /\ [][DnsNeedsUpdate]_vars

\* the answers of the address's record kind, in the order of the reply
AnswersOfKind(answers, addr) ==
    SelectSeq(answers, LAMBDA a : a.rdtype = rdtype(addr))

\* C13: when the default needs_update gets the resolver's answers, it returns
\* true if some answer of the address's record kind decodes to an address
\* other than the candidate or if there is no answer of that kind, and false
\* otherwise; so it returns true for answers holding the candidate and
\* another address.
C13_AnyDifferingAnswer ==
    (dns_result # NotCalled /\ dns_result.exc = "None") =>
        LET kind == AnswersOfKind(dns_reply.answers, dns_address)
        IN  dns_result.value =
                IF \/ kind = << >>
                   \/ \E i \in 1..Len(kind) :
                        ip_address(kind[i].address) # dns_address.address
                THEN "True" ELSE "False"

\* C14: the default needs_update raises the unsupported-address error for
\* exactly the addresses that are neither IPv4 nor IPv6, and goes on to the
\* DNS lookup for every IPv4 and every IPv6 address.
C14_FamilyGuard ==
    dns_result # NotCalled =>
        ((dns_result.exc = "Exception" /\ dns_result.msg = Unsupported)
            <=> ~IsIP(dns_address))

\* the binary value of an address, as far as the order of the addresses used
\* here goes
BinaryValue(address) ==
    CASE address.text = "1.1.1.1" -> 1
      [] address.text = "8.8.8.8" -> 2
      [] address.text = "10.0.0.1" -> 3
      [] address.text = "192.168.1.1" -> 4
      [] address.text = "2001:db8::1" -> 1
      [] address.text = "2001:db8::2" -> 2
      [] address.text = "2001:4860::1" -> 3
      [] address.text = "fe80::1" -> 4
      [] OTHER -> 0

(***************************************************************************)
(* The comparisons of address updates (models/address_update.py): __eq__   *)
(* and __lt__ of the two classes, the methods functools.total_ordering     *)
(* derives from them, and the operators == and < as Python evaluates them. *)
(* A method gives "True", "False" or "NotImplemented"; an operator gives   *)
(* "True" or "False", or raises "TypeError".                               *)
(***************************************************************************)
Bool(b) == IF b THEN "True" ELSE "False"

\* self.__eq__(other); the base class has object's, which is identity, and
\* the two operands of a comparison are two objects
__eq__(self, other) ==
    IF self.type = "IPv4AddressUpdate"
    THEN IF other.type = "IPv4AddressUpdate"
         THEN Bool(self.address = other.address)
         ELSE "NotImplemented"
    ELSE IF self.type = "IPv6AddressUpdate"
    THEN IF other.type = "IPv6AddressUpdate"
         THEN Bool(self.address = other.address)
         ELSE "NotImplemented"
    ELSE "NotImplemented"

\* mutant: an IPv6 update is not less than an IPv4 update because it cannot
\* be compared with it
__lt__without_cross_family(self, other) ==
    IF self.type = other.type /\ IsIP(self)
    THEN Bool(BinaryValue(self.address) < BinaryValue(other.address))
    ELSE "NotImplemented"

\* self.__lt__(other); addresses of one version compare by their value
__lt__(self, other) ==
    IF self.type = "IPv4AddressUpdate"
    THEN IF other.type = "IPv4AddressUpdate"
         THEN Bool(BinaryValue(self.address) < BinaryValue(other.address))
         ELSE "NotImplemented"
    ELSE IF self.type = "IPv6AddressUpdate"
    THEN IF other.type = "IPv6AddressUpdate"
         THEN Bool(BinaryValue(self.address) < BinaryValue(other.address))
         ELSE IF other.type = "IPv4AddressUpdate" THEN "False"
         ELSE "NotImplemented"
    ELSE "NotImplemented"

\* a == b: a.__eq__(b), then b.__eq__(a), then identity
Equal(a, b) ==
    IF __eq__(a, b) # "NotImplemented" THEN __eq__(a, b)
    ELSE IF __eq__(b, a) # "NotImplemented" THEN __eq__(b, a)
    ELSE "False"

\* self.__gt__(other) as total_ordering derives it from __lt__:
\* not self < other and self != other
__gt__(self, other) ==
    IF ~IsIP(self) \/ __lt__(self, other) = "NotImplemented" THEN "NotImplemented"
    ELSE Bool(__lt__(self, other) = "False" /\ Equal(self, other) = "False")

\* a < b: a.__lt__(b), then the reflected b.__gt__(a), then TypeError
Less(a, b) ==
    IF __lt__(a, b) # "NotImplemented" THEN __lt__(a, b)
    ELSE IF __gt__(b, a) # "NotImplemented" THEN __gt__(b, a)
    ELSE "TypeError"

\* the address updates compared: both families, several values of each, and
\* another family
ComparedAddresses ==
    Addresses \cup { IPv6AddressUpdate(IPv6Address("2001:db8::1")),
                     IPv6AddressUpdate(IPv6Address("2001:db8::2")) }

NotCompared == [lt |-> "none", eq |-> "none", gt |-> "none"]

InitCompare ==
    /\ UpdaterIdle
    /\ DnsIdle
    /\ ConfigIdle
    /\ FilterIdle
    /\ DenIdle
    /\ RunIdle
    /\ compare_a \in ComparedAddresses
    /\ compare_b \in ComparedAddresses
    /\ compare_result = NotCompared

\* a < b, a == b and b < a are evaluated
Compare ==
    /\ compare_result = NotCompared
    /\ compare_result' = [lt |-> Less(compare_a, compare_b),
                          eq |-> Equal(compare_a, compare_b),
                          gt |-> Less(compare_b, compare_a)]
    /\ UNCHANGED << compare_a, compare_b, updaterVars, dnsVars, configVars,
                    filterVars,
                    denVars,
                    runVars >>

SpecCompare == InitCompare /\ [][Compare]_vars

\* C28: two IPv4/IPv6 updates are equal exactly when family and address
\* are the same; within a family the order is that of the address value;
\* an IPv4 update is less than every IPv6 update; exactly one of a < b,
\* a == b, b < a holds and no comparison fails.
C28_EqualityAndOrder ==
    (compare_result # NotCompared /\ IsIP(compare_a) /\ IsIP(compare_b)) =>
        LET a == compare_a
            b == compare_b
            r == compare_result
        IN  /\ r.lt \in {"True", "False"}
            /\ r.eq \in {"True", "False"}
            /\ r.gt \in {"True", "False"}
            /\ r.eq = "True" <=> (a.type = b.type /\ a.address = b.address)
            /\ a.type = b.type =>
                    (r.lt = "True" <=>
                        BinaryValue(a.address) < BinaryValue(b.address))
            /\ (a.type = "IPv4AddressUpdate" /\ b.type = "IPv6AddressUpdate") =>
                    (r.lt = "True" /\ r.gt = "False")
            /\ Cardinality({ x \in {"lt", "eq", "gt"} : r[x] = "True" }) = 1

\* an IPv4 update has been compared with an IPv6 update, the IPv4 update on
\* the left, where its own __lt__ has no answer
C28_Witness ==
    /\ compare_a = IPv4AddressUpdate(IPv4Address("192.168.1.1"))
    /\ compare_b = IPv6AddressUpdate(IPv6Address("2001:db8::1"))
    /\ compare_result = [lt |-> "True", eq |-> "False", gt |-> "False"]

(***************************************************************************)
(* Address filters and the providers built from them                       *)
(* (AddressFilter.filter, AddressFilterProxyProvider.provide_addresses).   *)
(* What a provider or a filter gives is kept with the Python type it has:  *)
(* a list, a lazy filter object (the builtin filter()), or a bare          *)
(* AddressUpdate object; or the exception it raised.                       *)
(***************************************************************************)
MaxSourceAddrs == 3
MaxIndex == 2

List(items) == [kind |-> "list", items |-> items, exc |-> "None"]
FilterObject(items) == [kind |-> "filter", items |-> items, exc |-> "None"]
Object(a) == [kind |-> "AddressUpdate", items |-> << a >>, exc |-> "None"]
Raises(exc) == [kind |-> "raised", items |-> << >>, exc |-> exc]
NotPulled == [kind |-> "none", items |-> << >>, exc |-> "None"]

\* the filter classes, in the order find_all_subclasses yields them after
\* import_all_submodules("ddnswolf.filters"): family, positional, sorting
FilterClasses ==
    << "IPv4AddressFilter", "IPv6AddressFilter", "NthAddressFilter",
       "FirstAddressFilter", "LastAddressFilter", "BinaryValueSortAddressFilter" >>

\* config_type_name of each filter class
config_type_name(cls) ==
    CASE cls = "IPv4AddressFilter" -> "ipv4"
      [] cls = "IPv6AddressFilter" -> "ipv6"
      [] cls = "NthAddressFilter" -> "nth"
      [] cls = "FirstAddressFilter" -> "first"
      [] cls = "LastAddressFilter" -> "last"
      [] cls = "BinaryValueSortAddressFilter" -> "sorted"

\* a filter object: its class and, for NthAddressFilter, self.index
Filter(cls, index) == [cls |-> cls, index |-> index]

IPv6AddressFilter == Filter("IPv6AddressFilter", 0)
NthAddressFilter(index) == Filter("NthAddressFilter", index)

\* addresses[k] of a list: the position, counted from 1, of the element
PyIndex(n, k) == IF k >= 0 THEN k + 1 ELSE n + k + 1

\* addresses[self.index], IndexError giving []
NthFilter(addresses, index) ==
    IF addresses.kind # "list" THEN Raises("TypeError")
    ELSE IF -Len(addresses.items) <= index /\ index < Len(addresses.items)
    THEN Object(addresses.items[PyIndex(Len(addresses.items), index)])
    ELSE List(<< >>)

\* addresses[0:1]
FirstFilter(addresses) ==
    IF addresses.kind # "list" THEN Raises("TypeError")
    ELSE IF addresses.items = << >> THEN List(<< >>)
    ELSE List(<< Head(addresses.items) >>)

\* addresses[-1:]
LastFilter(addresses) ==
    IF addresses.kind # "list" THEN Raises("TypeError")
    ELSE IF addresses.items = << >> THEN List(<< >>)
    ELSE List(<< addresses.items[Len(addresses.items)] >>)

\* filter(lambda a: isinstance(a, cls), addresses): a lazy filter object
FamilyFilter(addresses, type) ==
    IF addresses.kind \notin {"list", "filter"} THEN Raises("TypeError")
    ELSE FilterObject(SelectSeq(addresses.items, LAMBDA a : a.type = type))

AllIP(addrs) == \A i \in 1..Len(addrs) : IsIP(addrs[i])

\* a sort key that leaves the family out
sort_key_value_only(a) == << 0, BinaryValue(a.address) >>

\* sort_key: IPv4 before IPv6 before the rest
sort_key(a) ==
    IF a.type = "IPv4AddressUpdate" THEN << 0, BinaryValue(a.address) >>
    ELSE IF a.type = "IPv6AddressUpdate" THEN << 1, BinaryValue(a.address) >>
    ELSE << 2, 0 >>

\* the position i of items put into an order of earlier positions that is
\* sorted by key: behind every position whose key is not greater, as the
\* stable sorted() places it; keys are tuples and compare element by element
InsertSorted(order, items, i) ==
    LET Before(k1, k2) == k1[1] < k2[1] \/ (k1[1] = k2[1] /\ k1[2] < k2[2])
        c == Cardinality({ j \in 1..Len(order) :
                            ~Before(sort_key(items[i]), sort_key(items[order[j]])) })
    IN  SubSeq(order, 1, c) \o << i >> \o SubSeq(order, c + 1, Len(order))

\* the positions of the first n elements of items in the order sorted()
\* gives them
RECURSIVE SortOrder(_, _)
SortOrder(items, n) ==
    IF n = 0 THEN << >>
    ELSE InsertSorted(SortOrder(items, n - 1), items, n)

Sorted(items) ==
    IF items = << >> THEN << >>
    ELSE LET order == SortOrder(items, Len(items))
         IN  [i \in 1..Len(items) |-> items[order[i]]]

\* sorted(addresses, key=sort_key); two objects that are neither IPv4 nor
\* IPv6 have no order, comparing them raises TypeError
SortedFilter(addresses) ==
    IF addresses.kind \notin {"list", "filter"} THEN Raises("TypeError")
    ELSE IF Len(SelectSeq(addresses.items, LAMBDA a : ~IsIP(a))) >= 2
    THEN Raises("TypeError")
    ELSE List(Sorted(addresses.items))

\* address.is_private of the ipaddress module, for the addresses used here
address_is_private(address) ==
    address.text \in {"10.0.0.1", "192.168.1.1", "2001:db8::1", "2001:db8::2", "fe80::1"}

\* is_private of PrivateAddressFilter.filter
is_private(a) ==
    IF a.type = "IPv4AddressUpdate" THEN address_is_private(a.address)
    ELSE IF a.type = "IPv6AddressUpdate" THEN address_is_private(a.address)
    ELSE FALSE

\* is_public of PublicAddressFilter.filter
is_public(a) ==
    IF a.type = "IPv4AddressUpdate" THEN address_is_private(a.address)
    ELSE IF a.type = "IPv6AddressUpdate" THEN address_is_private(a.address)
    ELSE FALSE

\* run_filter.filter(addresses)
AddressFilter_filter(run_filter, addresses) ==
    CASE run_filter.cls = "IPv4AddressFilter" ->
            FamilyFilter(addresses, "IPv4AddressUpdate")
      [] run_filter.cls = "IPv6AddressFilter" ->
            FamilyFilter(addresses, "IPv6AddressUpdate")
      [] run_filter.cls = "NthAddressFilter" -> NthFilter(addresses, run_filter.index)
      [] run_filter.cls = "FirstAddressFilter" -> FirstFilter(addresses)
      [] run_filter.cls = "LastAddressFilter" -> LastFilter(addresses)
      [] run_filter.cls = "BinaryValueSortAddressFilter" -> SortedFilter(addresses)
      [] run_filter.cls = "PrivateAddressFilter" ->
            FilterObject(SelectSeq(addresses.items, is_private))
      [] run_filter.cls = "PublicAddressFilter" ->
            FilterObject(SelectSeq(addresses.items, is_public))

\* an address source, a provider by itself
Source(name) == [kind |-> "source", name |-> name]

\* run_filter.as_provider(parent_source): an AddressFilterProxyProvider
as_provider(run_filter, parent_source) ==
    [kind |-> "proxy", run_filter |-> run_filter, parent_source |-> parent_source]

\* provider.provide_addresses(); given[name] is the list the source of that
\* name provides, and a source whose interface is not there raises; an
\* object that is no provider has no such method
RECURSIVE provide_addresses(_, _)
provide_addresses(provider, given) ==
    IF provider.kind = "source"
    THEN IF provider.name \in DOMAIN given THEN List(given[provider.name])
         ELSE Raises("DDNSWolfUserException")
    ELSE IF provider.kind # "proxy" THEN Raises("AttributeError")
    ELSE LET addresses == provide_addresses(provider.parent_source, given)
         IN  IF addresses.kind = "raised" THEN addresses
             ELSE AddressFilter_filter(provider.run_filter, addresses)

\* a call returns the value v, or raises
Value(v) == [exc |-> "None", msg |-> "", value |-> v]
Throws(exc, msg) == [exc |-> exc, msg |-> msg, value |-> [kind |-> "none"]]

\* the values of the literals of a subscription string: integers and strings
IntValue(k) == [kind |-> "int", value |-> k]
StrValue(text) == [kind |-> "str", text |-> text]

\* the strings int() reads as a number; it rejects every other string
Numerals == [text \in {"1", "-2"} |-> IF text = "1" THEN 1 ELSE -2]

\* int(index) in NthAddressFilter.__init__
int(index) ==
    IF index.kind = "int" THEN Value(index.value)
    ELSE IF index.kind # "str" THEN Throws("TypeError", "")
    ELSE IF index.text \in DOMAIN Numerals THEN Value(Numerals[index.text])
    ELSE Throws("ValueError", "invalid literal for int()")

\* filter_cls(*filter_args): NthAddressFilter takes the index, the other
\* classes take nothing
Construct(cls, filter_args) ==
    IF cls = "NthAddressFilter"
    THEN IF Len(filter_args) # 1 THEN Throws("TypeError", "")
         ELSE IF int(filter_args[1]).exc # "None" THEN int(filter_args[1])
         ELSE Value(NthAddressFilter(int(filter_args[1]).value))
    ELSE IF filter_args # << >> THEN Throws("TypeError", "")
    ELSE Value(Filter(cls, 0))

(***************************************************************************)
(* A pull through filters alone: a provider built from up to two filters   *)
(* over a source is pulled once, for every list the source can provide.    *)
(* The private and public filters have no as_provider; their filter() is   *)
(* applied to the list itself.  A filter may also start as the call of its *)
(* constructor that create_this_filter makes; the call gives the filter,   *)
(* which is then applied, or raises.                                       *)
(***************************************************************************)
FilterAddresses ==
    { IPv6AddressUpdate(IPv6Address("fe80::1")),
      IPv6AddressUpdate(IPv6Address("2001:db8::1")),
      IPv6AddressUpdate(IPv6Address("2001:db8::2")),
      IPv4AddressUpdate(IPv4Address("8.8.8.8")),
      OtherAddressUpdate }

Filters ==
    { Filter(FilterClasses[c], 0) : c \in 1..Len(FilterClasses) }
        \cup { NthAddressFilter(k) : k \in (-MaxIndex)..MaxIndex }

FilterProviders ==
    LET src == Source("iface")
        one == { as_provider(f, src) : f \in Filters }
    IN  { src } \cup one \cup { as_provider(f, p) : f \in Filters, p \in one }

\* the literals given as the index of nth
IndexLiterals ==
    { IntValue(MaxIndex + 2), IntValue(-1), StrValue("1"), StrValue("-2"),
      StrValue("abc"), StrValue("1.5") }

InitFilter ==
    /\ UpdaterIdle
    /\ DnsIdle
    /\ ConfigIdle
    /\ CompareIdle
    /\ DenIdle
    /\ RunIdle
    /\ filter_provider \in FilterProviders
            \cup { [kind |-> "applied", run_filter |-> f] :
                        f \in Filters \cup { Filter("PrivateAddressFilter", 0),
                                             Filter("PublicAddressFilter", 0) } }
            \cup { [kind |-> "call", cls |-> "NthAddressFilter",
                    filter_args |-> << v >>] : v \in IndexLiterals }
    /\ filter_source \in SeqsUpTo(FilterAddresses, MaxSourceAddrs)
    /\ filter_pulled = NotPulled
    /\ filter_again = NotPulled
    /\ filter_source_again = << >>
    /\ filter_source_pulls = 0

\* filter_cls(*filter_args) in create_this_filter has been called, with
\* outcome r
ConstructDone(r) ==
    filter_provider' = IF r.exc = "None"
                       THEN [kind |-> "applied", run_filter |-> r.value]
                       ELSE [kind |-> "failed", exc |-> r.exc]

\* create_this_filter constructs the filter
ConstructFilter ==
    /\ filter_provider.kind = "call"
    /\ ConstructDone(Construct(filter_provider.cls, filter_provider.filter_args))
    /\ UNCHANGED << filter_source, filter_pulled, filter_again, filter_source_again,
                    filter_source_pulls >>
    /\ UNCHANGED << updaterVars, dnsVars, configVars, compareVars, denVars, runVars >>

\* what the source provides when it is pulled a second time
SecondLists ==
    { << >>,
      << IPv4AddressUpdate(IPv4Address("8.8.8.8")),
         IPv6AddressUpdate(IPv6Address("2001:db8::2")),
         IPv6AddressUpdate(IPv6Address("fe80::1")) >> }

\* the provide_addresses() calls a pull makes on sources: a source is
\* called itself, a proxy calls its parent_source once
RECURSIVE source_calls(_)
source_calls(provider) ==
    IF provider.kind = "source" THEN 1
    ELSE IF provider.kind # "proxy" THEN 0
    ELSE source_calls(provider.parent_source)

\* mutant: a provider keeps what it gave and gives it again
PullCached(provider, given, before) ==
    IF before # NotPulled THEN before ELSE provide_addresses(provider, given)

\* a pull of a provider that gave before at its last pull: the provider
\* keeps nothing of it
Pull(provider, given, before) == provide_addresses(provider, given)

\* provider.provide_addresses(), as update_from_subscriptions calls it in
\* one cycle, and again in the next, when the source provides another list
PullProvider ==
    /\ filter_provider.kind \in {"source", "proxy"}
    /\ filter_again = NotPulled
    /\ IF filter_pulled = NotPulled
       THEN /\ filter_pulled' = Pull(filter_provider,
                                     [n \in {"iface"} |-> filter_source], NotPulled)
            /\ UNCHANGED << filter_again, filter_source_again >>
       ELSE \E addrs \in SecondLists :
                /\ filter_source_again' = addrs
                /\ filter_again' = Pull(filter_provider, [n \in {"iface"} |-> addrs],
                                        filter_pulled)
                /\ UNCHANGED filter_pulled
    /\ filter_source_pulls' = filter_source_pulls + source_calls(filter_provider)
    /\ UNCHANGED << filter_provider, filter_source, updaterVars, dnsVars, configVars,
                    compareVars,
                    denVars,
                    runVars >>

\* mutant: the sorted filter sorts the list it was given in place
ArgumentAfterSortInPlace(run_filter, addresses) ==
    IF run_filter.cls = "BinaryValueSortAddressFilter" /\ AllIP(addresses)
    THEN Sorted(addresses)
    ELSE addresses

\* the list given to run_filter.filter, after the call: the filters index,
\* slice and iterate their argument and sorted() builds a new list; none
\* assigns to it
ArgumentAfter(run_filter, addresses) == addresses

\* run_filter.filter(addresses) called on a list: a first call, and then a
\* second call on the same list with the same filter object
ApplyFilter ==
    /\ filter_provider.kind = "applied"
    /\ filter_again = NotPulled
    /\ IF filter_pulled = NotPulled
       THEN /\ filter_pulled' = AddressFilter_filter(filter_provider.run_filter,
                                                     List(filter_source))
            /\ UNCHANGED filter_again
       ELSE /\ filter_again' = AddressFilter_filter(filter_provider.run_filter,
                                                    List(filter_source))
            /\ UNCHANGED filter_pulled
    /\ filter_source' = ArgumentAfter(filter_provider.run_filter, filter_source)
    /\ UNCHANGED << filter_provider, filter_source_again, filter_source_pulls,
                    updaterVars, dnsVars, configVars,
                    compareVars,
                    denVars,
                    runVars >>

NextFilter == ConstructFilter \/ PullProvider \/ ApplyFilter

SpecFilter == InitFilter /\ [][NextFilter]_vars

\* the IPv6 addresses of a list, in their order
IPv6Of(addrs) == SelectSeq(addrs, LAMBDA a : a.type = "IPv6AddressUpdate")

\* C19: a pull of the provider nth(k, ipv6(src)) does not fail and gives a
\* sequence holding exactly the element at the zero-based position k of the
\* IPv6 addresses of src, in their original order.
C19_ChainedPull ==
    \A k \in 0..MaxIndex :
        (/\ filter_provider = as_provider(NthAddressFilter(k),
                                          as_provider(IPv6AddressFilter, Source("iface")))
         /\ filter_pulled # NotPulled
         /\ k < Len(IPv6Of(filter_source))) =>
            filter_pulled = List(<< IPv6Of(filter_source)[k + 1] >>)

\* the family rank and the numeric value the sorted filter is to order by
RankOf(a) == IF a.type = "IPv4AddressUpdate" THEN 0 ELSE 1

KeyLeq(a, b) ==
    \/ RankOf(a) < RankOf(b)
    \/ RankOf(a) = RankOf(b) /\ BinaryValue(a.address) <= BinaryValue(b.address)

SameKey(a, b) == KeyLeq(a, b) /\ KeyLeq(b, a)

Count(addrs, a) == Cardinality({ i \in 1..Len(addrs) : addrs[i] = a })

\* C21: the sorted filter, given IPv4 and IPv6 addresses only, returns a
\* permutation of its input that is non-decreasing by (family rank, numeric
\* value), places elements of equal key in their input order, and is empty
\* for the empty input.
C21_SortedFilter ==
    (/\ filter_provider = as_provider(Filter("BinaryValueSortAddressFilter", 0),
                                      Source("iface"))
     /\ filter_pulled # NotPulled
     /\ AllIP(filter_source)) =>
        LET out == filter_pulled.items
            order == SortOrder(filter_source, Len(filter_source))
        IN  /\ filter_pulled.kind = "list"
            /\ Len(out) = Len(filter_source)
            /\ \A a \in FilterAddresses : Count(out, a) = Count(filter_source, a)
            /\ \A i \in 1..Len(out) : \A j \in 1..Len(out) :
                    i < j => KeyLeq(out[i], out[j])
            /\ { order[i] : i \in 1..Len(order) } = 1..Len(filter_source)
            /\ \A i \in 1..Len(out) : out[i] = filter_source[order[i]]
            /\ \A i \in 1..Len(order) : \A j \in 1..Len(order) :
                    (i < j /\ SameKey(out[i], out[j])) => order[i] < order[j]
            /\ filter_source = << >> => out = << >>

\* three addresses of both families, out of order and with a repeated one,
\* have been sorted
C21_Witness ==
    /\ filter_provider = as_provider(Filter("BinaryValueSortAddressFilter", 0),
                                     Source("iface"))
    /\ filter_source = << IPv6AddressUpdate(IPv6Address("fe80::1")),
                          IPv4AddressUpdate(IPv4Address("8.8.8.8")),
                          IPv6AddressUpdate(IPv6Address("fe80::1")) >>
    /\ filter_pulled = List(<< IPv4AddressUpdate(IPv4Address("8.8.8.8")),
                               IPv6AddressUpdate(IPv6Address("fe80::1")),
                               IPv6AddressUpdate(IPv6Address("fe80::1")) >>)

\* C22: on every list, the private filter yields exactly the IPv4/IPv6
\* addresses classified private and the public filter exactly the
\* IPv4/IPv6 addresses not classified private, each in input order.
C22_PrivatePublic ==
    (filter_provider.kind = "applied" /\ filter_pulled # NotPulled) =>
        /\ filter_pulled.exc = "None"
        /\ filter_provider.run_filter.cls = "PrivateAddressFilter" =>
                filter_pulled.items =
                    SelectSeq(filter_source,
                              LAMBDA a : IsIP(a) /\ address_is_private(a.address))
        /\ filter_provider.run_filter.cls = "PublicAddressFilter" =>
                filter_pulled.items =
                    SelectSeq(filter_source,
                              LAMBDA a : IsIP(a) /\ ~address_is_private(a.address))

C32_PullThrough ==
    filter_provider.kind = "proxy" =>
        LET Through(addrs) ==
                LET up == provide_addresses(filter_provider.parent_source,
                                            [n \in {"iface"} |-> addrs])
                IN  IF up.kind = "raised" THEN up
                    ELSE AddressFilter_filter(filter_provider.run_filter, up)
        IN  /\ filter_pulled # NotPulled => filter_pulled = Through(filter_source)
            /\ filter_again # NotPulled => filter_again = Through(filter_source_again)
            /\ filter_source_pulls
                    = (IF filter_pulled # NotPulled THEN 1 ELSE 0)
                        + (IF filter_again # NotPulled THEN 1 ELSE 0)

\* a chain of two filters was pulled twice; the source, called twice, gave
\* another list the second time, and so did the chain
C32_Witness ==
    /\ filter_provider = as_provider(Filter("BinaryValueSortAddressFilter", 0),
                                     as_provider(Filter("LastAddressFilter", 0),
                                                 Source("iface")))
    /\ filter_source = << IPv4AddressUpdate(IPv4Address("8.8.8.8")) >>
    /\ filter_pulled = List(<< IPv4AddressUpdate(IPv4Address("8.8.8.8")) >>)
    /\ filter_again = List(<< IPv6AddressUpdate(IPv6Address("fe80::1")) >>)
    /\ filter_source_pulls = 2

\* a literal that is no integer and no text of an integer
Malformed(v) == v.kind = "str" /\ v.text \notin DOMAIN Numerals

PositionalClasses == {"NthAddressFilter", "FirstAddressFilter", "LastAddressFilter"}

\* C33: the constructor call of nth with a malformed index raises, so that
\* no filter exists and none is ever applied; and nth, first and last do not
\* raise when they are applied, to a list or to what the provider upstream
\* gave, nth giving the empty list for an index outside the range of a list.
C33_FailureTiming ==
    [][/\ (filter_provider.kind = "call"
                /\ Malformed(filter_provider.filter_args[1])) =>
            filter_provider'.kind = "failed"
       /\ filter_provider.kind = "failed" =>
            (filter_provider' = filter_provider /\ filter_pulled' = NotPulled)
       /\ (/\ filter_provider'.kind = "applied"
           /\ filter_provider'.run_filter.cls \in PositionalClasses) =>
            /\ filter_pulled'.kind # "raised"
            /\ filter_again'.kind # "raised"
            /\ (/\ filter_provider'.run_filter.cls = "NthAddressFilter"
                /\ filter_pulled' # NotPulled
                /\ \/ filter_provider'.run_filter.index >= Len(filter_source')
                   \/ filter_provider'.run_filter.index < -Len(filter_source')) =>
                    filter_pulled' = List(<< >>)
       /\ (/\ filter_provider'.kind = "proxy"
           /\ filter_provider'.run_filter.cls \in PositionalClasses
           /\ filter_pulled' # NotPulled
           /\ provide_addresses(filter_provider'.parent_source,
                                [n \in {"iface"} |-> filter_source']).kind # "raised") =>
            filter_pulled'.kind # "raised"]_vars

\* C20: on every list of the source, nth(-1) gives what last gives and
\* nth(0) gives what first gives, and nth(k) of the empty list is empty.
C20_PositionalEquivalences ==
    \A k \in (-MaxIndex)..MaxIndex :
        (/\ filter_provider = as_provider(NthAddressFilter(k), Source("iface"))
         /\ filter_pulled # NotPulled) =>
            /\ k = -1 => filter_pulled = LastFilter(List(filter_source))
            /\ k = 0 => filter_pulled = FirstFilter(List(filter_source))
            /\ filter_source = << >> => filter_pulled = List(<< >>)

(***************************************************************************)
(* Start-up: DDNSWolfApplication.from_config evaluates every subscription  *)
(* string of every updater as a Python expression and subscribes the       *)
(* result; main() then runs the application, or logs the exception that    *)
(* from_config raised.  A subscription string is kept as its syntax tree.  *)
(***************************************************************************)
MaxUpdaters == 2
MaxSubscriptions == 1

\* syntax trees: an identifier, an integer literal, a call of an identifier
Id(id) == [node |-> "Name", id |-> id, value |-> 0, args |-> << >>]
Num(value) == [node |-> "Constant", id |-> "", value |-> value, args |-> << >>]
Call(id, args) == [node |-> "Call", id |-> id, value |-> 0, args |-> args]

\* the keys of subscription_eval_locals the filter loop sets
FilterNames == { config_type_name(FilterClasses[c]) : c \in 1..Len(FilterClasses) }

\* the value of filter_cls when a create_this_filter is called: every
\* create_this_filter closes over the loop variable itself, and the calls
\* happen after the loop has ended
filter_cls(name) == FilterClasses[Len(FilterClasses)]

create_this_filter(name, args) ==
    IF args = << >> THEN Throws("IndexError", "")
    ELSE LET parent_source == args[Len(args)]
             made == Construct(filter_cls(name), SubSeq(args, 1, Len(args) - 1))
         IN  IF made.exc # "None" THEN made
             ELSE Value(as_provider(made.value, parent_source))

\* the lookup of an identifier in subscription_eval_locals: the filter
\* functions (each a create_this_filter) were put in after the sources
Lookup(id, srcs) ==
    IF id \in FilterNames THEN Value([kind |-> "function", name |-> id])
    ELSE IF id \in srcs THEN Value(Source(id))
    ELSE Throws("NameError", id)

\* eval(subscription_str, {}, subscription_eval_locals)
RECURSIVE Eval(_, _)
RECURSIVE EvalArgs(_, _)
EvalArgs(args, srcs) ==
    IF args = << >> THEN [exc |-> "None", msg |-> "", values |-> << >>]
    ELSE LET first == Eval(Head(args), srcs)
             rest == EvalArgs(Tail(args), srcs)
         IN  IF first.exc # "None"
             THEN [exc |-> first.exc, msg |-> first.msg, values |-> << >>]
             ELSE IF rest.exc # "None" THEN rest
             ELSE [exc |-> "None", msg |-> "", values |-> << first.value >> \o rest.values]

Eval(expr, srcs) ==
    IF expr.node = "Constant" THEN Value(IntValue(expr.value))
    ELSE IF expr.node = "Name" THEN Lookup(expr.id, srcs)
    ELSE LET func == Lookup(expr.id, srcs)
             args == EvalArgs(expr.args, srcs)
         IN  IF func.exc # "None" THEN func
             ELSE IF args.exc # "None" THEN Throws(args.exc, args.msg)
             ELSE IF func.value.kind # "function" THEN Throws("TypeError", "")
             ELSE create_this_filter(func.value.name, args.values)

NoException == [exc |-> "None", msg |-> "", name |-> ""]

UnknownFilterOrSource == "Unknown filter or source"

\* what from_config raises when eval raised: NameError is turned into the
\* user error, which carries the NameError's text; anything else goes through
FromConfigRaises(r) ==
    IF r.exc = "NameError"
    THEN [exc |-> "DDNSWolfUserException", msg |-> UnknownFilterOrSource, name |-> r.msg]
    ELSE [exc |-> r.exc, msg |-> r.msg, name |-> ""]

\* mutant: a subscription that cannot be built is logged and passed over
AfterFailureSkip(subscription) ==
    [pc |-> "from_config", subscription |-> subscription + 1]

\* the exception leaves both loops and from_config
AfterFailure(subscription) ==
    [pc |-> "failed", subscription |-> subscription]

SubscriptionExprs ==
    { Id("iface"), Id("first"), Id("foo"),
      Call("first", << Id("iface") >>),
      Call("nth", << Num(1), Call("ipv6", << Id("iface") >>) >>),
      Call("foo", << Id("iface") >>),
      Call("iface", << Id("iface") >>) }

\* what the sources provide in a round
SourceLists ==
    { << >>,
      << IPv6AddressUpdate(IPv6Address("fe80::1")),
         IPv4AddressUpdate(IPv4Address("8.8.8.8")) >> }

\* configurations of an updater with more than one subscription string
LongerConfigs ==
    { << << Id("iface"), Call("sorted", << Id("iface") >>), Id("iface") >>,
         << Call("sorted", << Id("iface") >>), Id("iface") >> >>,
      << << Id("iface"), Id("foo"), Id("iface") >> >> }

InitConfig ==
    /\ UpdaterIdle
    /\ DnsIdle
    /\ FilterIdle
    /\ CompareIdle
    /\ DenIdle
    /\ RunIdle
    /\ sources = {"iface"}
    /\ config_subscriptions \in
            SeqsUpTo(SeqsUpTo(SubscriptionExprs, MaxSubscriptions), MaxUpdaters)
                \cup LongerConfigs
    /\ subscriptions = [u \in 1..Len(config_subscriptions) |-> << >>]
    /\ config_pc = "from_config"
    /\ config_updater = 1
    /\ config_subscription = 1
    /\ config_exc = NoException
    /\ pulled = << >>

\* mutant: updater.subscribe puts the provider in front of the others
SubscribeDoneInFront(r) ==
    IF r.exc = "None"
    THEN /\ subscriptions' = [subscriptions EXCEPT
                                ![config_updater] = << r.value >> \o @]
         /\ config_subscription' = config_subscription + 1
         /\ UNCHANGED << config_pc, config_exc >>
    ELSE /\ config_exc' = FromConfigRaises(r)
         /\ config_pc' = AfterFailure(config_subscription).pc
         /\ config_subscription' = AfterFailure(config_subscription).subscription
         /\ UNCHANGED subscriptions

\* the try block has evaluated the subscription string, with outcome r
SubscribeDone(r) ==
    IF r.exc = "None"
    THEN /\ subscriptions' = [subscriptions EXCEPT ![config_updater] = Append(@, r.value)]
         /\ config_subscription' = config_subscription + 1
         /\ UNCHANGED << config_pc, config_exc >>
    ELSE /\ config_exc' = FromConfigRaises(r)
         /\ config_pc' = AfterFailure(config_subscription).pc
         /\ config_subscription' = AfterFailure(config_subscription).subscription
         /\ UNCHANGED subscriptions

\* one turn of the loop over an updater's subscription strings
Subscribe ==
    /\ config_pc = "from_config"
    /\ config_updater <= Len(config_subscriptions)
    /\ config_subscription <= Len(config_subscriptions[config_updater])
    /\ SubscribeDone(Eval(config_subscriptions[config_updater][config_subscription],
                          sources))
    /\ UNCHANGED << sources, config_subscriptions, config_updater, pulled >>
    /\ UNCHANGED << updaterVars, dnsVars, filterVars, compareVars,
                    denVars,
                    runVars >>

\* the loop over the updaters goes on to the next updater
NextUpdater ==
    /\ config_pc = "from_config"
    /\ config_updater <= Len(config_subscriptions)
    /\ config_subscription > Len(config_subscriptions[config_updater])
    /\ config_updater' = config_updater + 1
    /\ config_subscription' = 1
    /\ UNCHANGED << sources, config_subscriptions, subscriptions, config_pc, config_exc,
                    pulled >>
    /\ UNCHANGED << updaterVars, dnsVars, filterVars, compareVars,
                    denVars,
                    runVars >>

\* from_config returns the application and main() runs it
FromConfigReturn ==
    /\ config_pc = "from_config"
    /\ config_updater > Len(config_subscriptions)
    /\ config_pc' = "running"
    /\ UNCHANGED << sources, config_subscriptions, subscriptions, config_updater,
                    config_subscription, config_exc, pulled >>
    /\ UNCHANGED << updaterVars, dnsVars, filterVars, compareVars,
                    denVars,
                    runVars >>

\* map(lambda p: p.provide_addresses(), self.subscriptions), unpacked: the
\* subscribed objects are pulled in their order, up to the first that raises
RECURSIVE PullEach(_, _)
PullEach(providers, given) ==
    IF providers = << >> THEN << >>
    ELSE LET r == provide_addresses(Head(providers), given)
         IN  IF r.kind = "raised" THEN << [provider |-> Head(providers), result |-> r] >>
             ELSE << [provider |-> Head(providers), result |-> r] >>
                    \o PullEach(Tail(providers), given)

\* mutant: a pull that raised counts as a pull that gave nothing
CollectRaisesSwallowed(pulls) ==
    IF \E k \in 1..Len(pulls) : pulls[k].result.kind = "AddressUpdate"
    THEN "TypeError"
    ELSE "None"

\* list(itertools.chain(...)) of what was pulled: the exception a pull
\* raised, or TypeError when something pulled is no iterable
CollectRaises(pulls) ==
    IF pulls # << >> /\ pulls[Len(pulls)].result.kind = "raised"
    THEN pulls[Len(pulls)].result.exc
    ELSE IF \E k \in 1..Len(pulls) : pulls[k].result.kind = "AddressUpdate"
    THEN "TypeError"
    ELSE "None"

\* update_now from updater u on: each updater pulls its subscriptions; the
\* first exception ends the round and the run loop
RECURSIVE UpdateNowFrom(_, _, _)
UpdateNowFrom(u, subs, given) ==
    IF u > Len(subs) THEN [pulls |-> << >>, exc |-> "None"]
    ELSE LET pulls == PullEach(subs[u], given)
             rest == UpdateNowFrom(u + 1, subs, given)
         IN  IF CollectRaises(pulls) # "None"
             THEN [pulls |-> pulls, exc |-> CollectRaises(pulls)]
             ELSE [pulls |-> pulls \o rest.pulls, exc |-> rest.exc]

\* a round has been run, with outcome round
UpdateNowDone(round) ==
    /\ pulled' = round.pulls
    /\ config_pc' = IF round.exc # "None" THEN "stopped" ELSE "running"

\* a round of the run loop: update_now
UpdateNow ==
    /\ config_pc = "running"
    /\ \E given \in [sources -> SourceLists] :
            UpdateNowDone(UpdateNowFrom(1, subscriptions, given))
    /\ UNCHANGED << sources, config_subscriptions, subscriptions, config_updater,
                    config_subscription, config_exc >>
    /\ UNCHANGED << updaterVars, dnsVars, filterVars, compareVars,
                    denVars,
                    runVars >>

NextConfig == Subscribe \/ NextUpdater \/ FromConfigReturn \/ UpdateNow

SpecConfig == InitConfig /\ [][NextConfig]_vars

\* the subscription strings from_config has evaluated and subscribed
Built ==
    { p \in (1..Len(subscriptions)) \X (1..MaxSubscriptions) :
        p[2] <= Len(subscriptions[p[1]]) }

\* C15: the provider a call n(args..., upstream) of a registered filter name
\* n evaluates to has a filter of the class registered under n, made with
\* the arguments before the last, and the last argument as its upstream.
C15_FilterResolution ==
    \A p \in Built :
        LET expr == config_subscriptions[p[1]][p[2]]
            made == subscriptions[p[1]][p[2]]
        IN  (expr.node = "Call" /\ expr.id \in FilterNames) =>
                /\ made.kind = "proxy"
                /\ config_type_name(made.run_filter.cls) = expr.id
                /\ made.parent_source
                        = Eval(expr.args[Len(expr.args)], sources).value

\* from_config has evaluated subscription string k of updater u and
\* subscribed the result
Accepted(u, k) ==
    u < config_updater \/ (u = config_updater /\ k < config_subscription)

\* from_config raised on subscription string k of updater u
Rejected(u, k) ==
    config_pc = "failed" /\ u = config_updater /\ k = config_subscription

\* C16: a bare identifier is subscribed if and only if it names a source,
\* and what is subscribed is then that source; a bare filter name is
\* rejected and nothing is subscribed for it.
C16_BareIdentifier ==
    \A u \in 1..Len(config_subscriptions) :
        \A k \in 1..Len(config_subscriptions[u]) :
            LET expr == config_subscriptions[u][k]
            IN  expr.node = "Name" =>
                    /\ Accepted(u, k) =>
                            /\ expr.id \in sources /\ expr.id \notin FilterNames
                            /\ subscriptions[u][k] = Source(expr.id)
                    /\ Rejected(u, k) => expr.id \notin sources

\* C17: a subscription string that calls an identifier that is no registered
\* filter (a source's name included), or that is a bare identifier that is
\* no registered source, fails with the user error "unknown filter or
\* source" that names the identifier.
C17_UnknownIdentifier ==
    \A u \in 1..Len(config_subscriptions) :
        \A k \in 1..Len(config_subscriptions[u]) :
            LET expr == config_subscriptions[u][k]
                unknown == \/ expr.node = "Call" /\ expr.id \notin FilterNames
                           \/ expr.node = "Name" /\ expr.id \notin sources
            IN  (unknown /\ (Accepted(u, k) \/ Rejected(u, k))) =>
                    /\ Rejected(u, k)
                    /\ config_exc = [exc |-> "DDNSWolfUserException",
                                     msg |-> UnknownFilterOrSource, name |-> expr.id]

\* the number of subscription strings of updater u that from_config has
\* evaluated and subscribed
AcceptedCount(u) ==
    IF u < config_updater THEN Len(config_subscriptions[u])
    ELSE IF u = config_updater THEN config_subscription - 1
    ELSE 0

\* C31: at every moment each updater's subscriptions are the providers of
\* the subscription strings from_config has evaluated for it so far, one for
\* each string and in the configured order; and once from_config has
\* returned, no step of the polling loop changes any updater's
\* subscriptions.
C31_SubscriptionsFixed ==
    [][/\ \A u \in 1..Len(config_subscriptions) :
            /\ Len(subscriptions'[u]) = AcceptedCount(u)'
            /\ \A k \in 1..Len(subscriptions'[u]) :
                    subscriptions'[u][k]
                        = Eval(config_subscriptions[u][k], sources).value
       /\ config_pc \in {"running", "stopped"} => subscriptions' = subscriptions]_vars

\* an updater with three subscriptions, the first and the third the same
\* source, has been pulled in a round
C31_Witness ==
    /\ config_pc = "running"
    /\ pulled # << >>
    /\ Len(subscriptions) = 2
    /\ Len(subscriptions[1]) = 3
    /\ subscriptions[1][1] = Source("iface")
    /\ subscriptions[1][2] # Source("iface")
    /\ subscriptions[1][3] = Source("iface")

\* C18: once building a subscription of any updater has failed, there is no
\* application: nothing is ever pulled and no round is ever run, whatever
\* was subscribed before the failure.
C18_NeverPartiallyUsable ==
    config_exc # NoException =>
        /\ config_pc = "failed"
        /\ pulled = << >>

\* the first updater got its provider subscribed, the second updater's
\* subscription failed, and nothing was pulled
C18_Witness ==
    /\ config_exc # NoException
    /\ Len(subscriptions) = 2
    /\ subscriptions[1] # << >>
    /\ subscriptions[1][1].kind \in {"source", "proxy"}
    /\ config_updater = 2


(***************************************************************************)
(* The zone search of the dnsden updater (dnsden/protocols/cloudflare.py,  *)
(* CloudflareDNSUpdater._get_zone), one turn of its while loop at a time.  *)
(* The registrar answers every query as it likes.  den_pc is "idle"        *)
(* before a call, "loop" at the head of the while loop, "returned" and     *)
(* "raised" after the call.                                                *)
(***************************************************************************)
MaxQueries == 5

InitDen ==
    /\ hostname \in Hostnames
    /\ create_records = FALSE
    /\ now = StartTime
    /\ cf_zone = NoZone
    /\ cf_zone_last_update = DatetimeMin
    /\ cf_records = << >>
    /\ CycleIdle
    /\ zoneCalls = << >>
    /\ stored = NoStored
    /\ DnsIdle
    /\ ConfigIdle
    /\ FilterIdle
    /\ CompareIdle
    /\ RunIdle
    /\ den_pc = "idle"
    /\ den_zone_name = from_text(hostname)
    /\ den_queries = << >>

\* _get_zone is called: the cached zone is returned while it is fresh;
\* else the search starts at the configured name, with self._cf_zone = None
DenGetZone ==
    /\ den_pc \in {"idle", "returned", "raised"}
    /\ den_queries' = << >>
    /\ den_zone_name' = from_text(hostname)
    /\ IF IsFresh([zone |-> cf_zone, last |-> cf_zone_last_update], now)
       THEN den_pc' = "returned" /\ UNCHANGED cf_zone
       ELSE den_pc' = "loop" /\ cf_zone' = NoZone
    /\ UNCHANGED << dnsVars, configVars, filterVars, compareVars,
                    runVars >>
    /\ UNCHANGED << hostname, create_records, now, cf_zone_last_update, cf_records,
                    pc, all_addresses, cleaned_addresses, idx, need, cycleLog,
                    zoneCalls, stored >>

\* one turn of `while self._cf_zone is None`: the zone of the queried name
\* is stored and returned; CloudFlareAPIError moves the search to the
\* parent name, or raises when there is none; any other answer leaves
\* zone_name as it is
DenQuery ==
    /\ den_pc = "loop"
    /\ Len(den_queries) < MaxQueries
    /\ \E kind \in ReplyKinds :
        LET q == to_text(den_zone_name)
            reply == ZonesGet([n \in 0..MaxLabels |-> kind], q)
            found == IF reply.error THEN << >>
                     ELSE FirstMatching(reply.zones, den_zone_name)
        IN  /\ den_queries' = Append(den_queries, [name |-> q, kind |-> kind])
            /\ IF found # << >>
               THEN /\ cf_zone' = _set_zone(Head(found), now).zone
                    /\ cf_zone_last_update' = _set_zone(Head(found), now).last
                    /\ den_pc' = "returned"
                    /\ UNCHANGED den_zone_name
               ELSE IF ~reply.error
               THEN UNCHANGED << cf_zone, cf_zone_last_update, den_pc, den_zone_name >>
               ELSE IF HasParent(den_zone_name)
               THEN /\ den_zone_name' = parent(den_zone_name)
                    /\ UNCHANGED << cf_zone, cf_zone_last_update, den_pc >>
               ELSE /\ den_pc' = "raised"
                    /\ UNCHANGED << cf_zone, cf_zone_last_update, den_zone_name >>
    /\ UNCHANGED << dnsVars, configVars, filterVars, compareVars,
                    runVars >>
    /\ UNCHANGED << hostname, create_records, now, cf_records, pc, all_addresses,
                    cleaned_addresses, idx, need, cycleLog, zoneCalls, stored >>

NextDen == DenGetZone \/ DenQuery

SpecDen == InitDen /\ [][NextDen]_vars

\* C30: a zone search on a cache miss issues at most one zone query for each
\* suffix of the hostname, the root included, whatever the registrar
\* answers; a query answered without failure and without a zone of the
\* queried name is followed by the query for the parent name.
C30_ZoneSearchTermination ==
    /\ Len(den_queries) <= Len(hostname.labels) + 1
    /\ \A i \in 1..Len(den_queries) : \A j \in 1..Len(den_queries) :
            i < j => den_queries[i].name # den_queries[j].name
    /\ \A i \in 1..(Len(den_queries) - 1) :
            den_queries[i].kind \in {"empty", "other"} =>
                den_queries[i + 1].name = to_text(parent(from_text(den_queries[i].name)))

(***************************************************************************)
(* The polling loop, DDNSWolfApplication.run, over the updaters that       *)
(* from_config built: update_now calls update_from_subscriptions of each   *)
(* updater in turn, and run sleeps between two rounds.  Each updater has   *)
(* its own subscriptions and its own zone cache; the updaters are of one   *)
(* hostname and write to one registrar.  Time passes between the calls of  *)
(* a round and during a sleep.                                             *)
(* run_pc is "run" at the head of the while loop, "for" at the head of the *)
(* for loop of update_now, "call" while the call made for run_updater is   *)
(* awaited, "stopped" after an exception has left run.                     *)
(***************************************************************************)

\* an updater's update_from_subscriptions before its first call; running
\* counts the calls that were made and have neither returned nor raised
NoCycle ==
    [pc |-> "idle", running |-> 0, all_addresses |-> << >>,
     cleaned_addresses |-> << >>, idx |-> 0, need |-> "none", log |-> << >>,
     before |-> [all_addresses |-> << >>, updated |-> {}]]

\* the subscriptions of the updaters, as from_config left them
RunSubscriptions ==
    { << << Source("iface"), Source("ipify") >>,
         << as_provider(NthAddressFilter(0), Source("iface")) >> >>,
      << << Source("ipify") >>,
         << Source("iface"), Source("iface") >> >>,
      << << Source("ipify"), Source("iface") >> >> }

\* what the sources provide during a cycle; the interface may be gone
RunGiven ==
    { [iface |-> l, ipify |-> << IPv4AddressUpdate(IPv4Address("8.8.8.8")) >>] :
        l \in { << >>,
                << IPv4AddressUpdate(IPv4Address("10.0.0.1")),
                   IPv6AddressUpdate(IPv6Address("fe80::1")) >>,
                << OtherAddressUpdate,
                   IPv4AddressUpdate(IPv4Address("10.0.0.1")) >> } }
        \cup { [ipify |-> << IPv4AddressUpdate(IPv4Address("8.8.8.8")) >>] }

\* the registrar's records when run starts
RunRecords ==
    { << >>,
      << Record(1, Str(<<"www", "example", "com">>, FALSE), "A", "10.0.0.1") >> }

InitRun ==
    /\ hostname \in CycleHostnames
    /\ create_records \in BOOLEAN
    /\ now = StartTime
    /\ cf_zone = NoZone
    /\ cf_zone_last_update = DatetimeMin
    /\ cf_records = << >>
    /\ CycleIdle
    /\ zoneCalls = << >>
    /\ stored = NoStored
    /\ DnsIdle
    /\ ConfigIdle
    /\ FilterIdle
    /\ CompareIdle
    /\ DenIdle
    /\ run_pc = "run"
    /\ run_now = StartTime
    /\ run_loop_now = DatetimeMin
    /\ run_events = << >>
    /\ run_last_update = DatetimeMin
    /\ run_check_interval \in { ZoneFreshHours - 1, ZoneFreshHours }
    /\ run_updater = 0
    /\ run_subscriptions \in RunSubscriptions
    /\ run_zone = [u \in 1..Len(run_subscriptions) |->
                        [zone |-> NoZone, last |-> DatetimeMin]]
    /\ run_cycle = [u \in 1..Len(run_subscriptions) |-> NoCycle]
    /\ run_records \in RunRecords
    /\ run_log = << >>

\* now = datetime.now(); if last_update + self.check_interval <= now:
\* self.update_now()
StartRound ==
    /\ run_pc = "run"
    /\ run_last_update + run_check_interval <= run_now
    /\ run_loop_now' = run_now
    /\ run_events' = Append(run_events, [op |-> "start", at |-> run_now])
    /\ run_pc' = "for"
    /\ run_updater' = 1
    /\ run_log' = << >>
    /\ UNCHANGED << run_now, run_last_update, run_check_interval, run_subscriptions,
                    run_zone, run_cycle, run_records >>
    /\ UNCHANGED << updaterVars, dnsVars, configVars, filterVars, compareVars,
                    denVars >>

\* now = datetime.now(); else: time.sleep(...) for what is left of the
\* interval; the sleep lasts that long at least
RunSleep ==
    /\ run_pc = "run"
    /\ ~(run_last_update + run_check_interval <= run_now)
    /\ run_last_update + run_check_interval <= MaxTime
    /\ run_loop_now' = run_now
    /\ run_events' = Append(run_events, [op |-> "sleep", at |-> run_now])
    /\ \E late \in 0..1 :
            /\ run_last_update + run_check_interval + late <= MaxTime
            /\ run_now' = run_last_update + run_check_interval + late
    /\ UNCHANGED << run_pc, run_last_update, run_check_interval, run_updater,
                    run_subscriptions, run_zone, run_cycle, run_records, run_log >>
    /\ UNCHANGED << updaterVars, dnsVars, configVars, filterVars, compareVars,
                    denVars >>

\* time passes while update_now is at work
RoundTakesTime ==
    /\ run_pc = "for"
    /\ run_now < MaxTime
    /\ run_now' = run_now + 1
    /\ UNCHANGED << run_pc, run_loop_now, run_events, run_last_update,
                    run_check_interval, run_updater, run_subscriptions, run_zone,
                    run_cycle, run_records, run_log >>
    /\ UNCHANGED << updaterVars, dnsVars, configVars, filterVars, compareVars,
                    denVars >>

RECURSIVE Chain(_)

\* mutant: only what the first subscription gave is collected
ChainFirstOnly(pulls) ==
    IF pulls = << >> THEN << >> ELSE Head(pulls).result.items

\* list(itertools.chain(*...)): what was pulled, concatenated in its order
Chain(pulls) ==
    IF pulls = << >> THEN << >>
    ELSE Head(pulls).result.items \o Chain(Tail(pulls))

\* an entry of the history of a cycle: the pull of subscription sub, or a
\* call of needs_update or update, with what it gave or got, the exception it
\* raised and the writes it sent to the registrar
Event(op, sub, gave, exc, writes) ==
    [op |-> op, sub |-> sub, gave |-> gave, exc |-> exc, writes |-> writes]

\* the history of the pulls of a cycle
PullEvents(pulls) ==
    [k \in 1..Len(pulls) |->
        Event("pull", k, pulls[k].result.items, pulls[k].result.exc, << >>)]

\* history: what the cycle before collected, and the addresses for which its
\* update call returned
Before(cycle) ==
    [all_addresses |-> cycle.all_addresses,
     updated |-> { cycle.log[i].gave[1] :
                    i \in { k \in 1..Len(cycle.log) :
                                cycle.log[k].op = "update" /\ cycle.log[k].exc = "None" } }]

\* update_from_subscriptions up to its loop: the pulls, all_addresses,
\* cleaned_addresses, and the comparison of the two sorted lists
Collected(cycle, pulls) ==
    LET all == Chain(pulls)
        cleaned == Clean(all, << >>)
        raises == \/ CollectRaises(pulls) # "None"
                  \/ SortedRaises(all)
                  \/ SortedRaises(cleaned)
    IN  [pc |-> IF raises THEN "raised" ELSE "loop",
         running |-> IF raises THEN cycle.running ELSE cycle.running + 1,
         all_addresses |-> IF CollectRaises(pulls) # "None" THEN << >> ELSE all,
         cleaned_addresses |-> IF CollectRaises(pulls) # "None" THEN << >> ELSE cleaned,
         idx |-> 1, need |-> "none", log |-> PullEvents(pulls),
         before |-> Before(cycle)]

\* update_now calls updater.update_from_subscriptions(); an exception of
\* the call leaves update_now and run
CycleStart ==
    /\ run_pc = "for"
    /\ run_updater <= Len(run_cycle)
    /\ \E given \in RunGiven :
            LET cycle == Collected(run_cycle[run_updater],
                                   PullEach(run_subscriptions[run_updater], given))
            IN  /\ run_cycle' = [run_cycle EXCEPT ![run_updater] = cycle]
                /\ run_pc' = IF cycle.pc = "raised" THEN "stopped" ELSE "call"
    /\ run_log' = Append(run_log, run_updater)
    /\ UNCHANGED << run_now, run_last_update, run_check_interval, run_updater,
                    run_subscriptions, run_zone, run_records >>
    /\ UNCHANGED << run_loop_now, run_events >>
    /\ UNCHANGED << updaterVars, dnsVars, configVars, filterVars, compareVars,
                    denVars >>

\* mutant: _cf_zone and _cf_zone_last_update are attributes of the class
SharedCache(caches, u, cache) == [v \in DOMAIN caches |-> cache]

\* self._cf_zone and self._cf_zone_last_update are attributes of the
\* updater object: an assignment changes the cache of updater u alone
OwnCache(caches, u, cache) == [caches EXCEPT ![u] = cache]

\* the try block of updater u has called needs_update, with outcome r
CycleNeedsUpdateDone(u, r) ==
    /\ run_zone' = OwnCache(run_zone, u, r.cache)
    /\ run_cycle' = [run_cycle EXCEPT
            ![u].log = Append(@, Event("needs_update", 0, << r.out.addr >>,
                                       r.out.exc, r.out.writes)),
            ![u].need = IF UpdateWanted(r.out) THEN "update" ELSE "none",
            ![u].idx = IF UpdateWanted(r.out) THEN @ ELSE @ + 1]

\* self.needs_update(addr) in the try block of an updater's cycle
CycleNeedsUpdate ==
    /\ \E u \in 1..Len(run_cycle) :
            /\ run_cycle[u].pc = "loop"
            /\ run_cycle[u].idx <= Len(run_cycle[u].cleaned_addresses)
            /\ run_cycle[u].need = "none"
            /\ \E env \in Envs(run_zone[u], run_now, {FALSE}, {FALSE}) :
                    CycleNeedsUpdateDone(u,
                        needs_update(run_zone[u], hostname, env, run_now, run_records,
                                     run_cycle[u].cleaned_addresses[run_cycle[u].idx]))
    /\ UNCHANGED << run_pc, run_now, run_last_update, run_check_interval, run_updater,
                    run_subscriptions, run_records, run_log >>
    /\ UNCHANGED << run_loop_now, run_events >>
    /\ UNCHANGED << updaterVars, dnsVars, configVars, filterVars, compareVars,
                    denVars >>

\* the try block of updater u has called update, with outcome r
CycleUpdateDone(u, r) ==
    /\ run_zone' = OwnCache(run_zone, u, r.cache)
    /\ run_records' = r.records
    /\ run_cycle' = [run_cycle EXCEPT
            ![u].log = Append(@, Event("update", 0, << r.out.addr >>,
                                       r.out.exc, r.out.writes)),
            ![u].need = "none",
            ![u].idx = @ + 1]

\* self.update(addr) in the try block of an updater's cycle
CycleUpdate ==
    /\ \E u \in 1..Len(run_cycle) :
            /\ run_cycle[u].pc = "loop"
            /\ run_cycle[u].idx <= Len(run_cycle[u].cleaned_addresses)
            /\ run_cycle[u].need = "update"
            /\ \E env \in Envs(run_zone[u], run_now, {FALSE}, {FALSE}) :
                    CycleUpdateDone(u,
                        update(run_zone[u], hostname, create_records, env, run_now,
                               run_records,
                               run_cycle[u].cleaned_addresses[run_cycle[u].idx]))
    /\ UNCHANGED << run_pc, run_now, run_last_update, run_check_interval, run_updater,
                    run_subscriptions, run_log >>
    /\ UNCHANGED << run_loop_now, run_events >>
    /\ UNCHANGED << updaterVars, dnsVars, configVars, filterVars, compareVars,
                    denVars >>

\* the loop of an updater's cycle is over: update_from_subscriptions returns
CycleFinish ==
    /\ \E u \in 1..Len(run_cycle) :
            /\ run_cycle[u].pc = "loop"
            /\ run_cycle[u].idx > Len(run_cycle[u].cleaned_addresses)
            /\ run_cycle' = [run_cycle EXCEPT ![u].pc = "done",
                                              ![u].running = @ - 1]
    /\ UNCHANGED << run_pc, run_now, run_last_update, run_check_interval, run_updater,
                    run_subscriptions, run_zone, run_records, run_log >>
    /\ UNCHANGED << run_loop_now, run_events >>
    /\ UNCHANGED << updaterVars, dnsVars, configVars, filterVars, compareVars,
                    denVars >>

\* mutant: the for loop goes on as soon as the call has been started
CallStarted(cycle) == cycle.pc \in {"loop", "done"}

\* updater.update_from_subscriptions() is a plain call: the for loop goes on
\* when it has returned
CallReturned(cycle) == cycle.pc = "done"

\* the for loop of update_now goes on to the next updater
ForNext ==
    /\ run_pc = "call"
    /\ CallReturned(run_cycle[run_updater])
    /\ run_pc' = "for"
    /\ run_updater' = run_updater + 1
    /\ UNCHANGED << run_now, run_last_update, run_check_interval, run_subscriptions,
                    run_zone, run_cycle, run_records, run_log >>
    /\ UNCHANGED << run_loop_now, run_events >>
    /\ UNCHANGED << updaterVars, dnsVars, configVars, filterVars, compareVars,
                    denVars >>

\* mutant: last_update is the time at which the round ended
LastUpdateAtReturn(loop_now, clock) == clock

\* last_update = now: now is the local of run, read before the round
LastUpdate(loop_now, clock) == loop_now

\* update_now returns: last_update = now
RoundReturn ==
    /\ run_pc = "for"
    /\ run_updater > Len(run_cycle)
    /\ run_pc' = "run"
    /\ run_updater' = 0
    /\ run_last_update' = LastUpdate(run_loop_now, run_now)
    /\ run_events' = Append(run_events, [op |-> "end", at |-> run_now])
    /\ UNCHANGED << run_now, run_loop_now, run_check_interval, run_subscriptions,
                    run_zone, run_cycle, run_records, run_log >>
    /\ UNCHANGED << updaterVars, dnsVars, configVars, filterVars, compareVars,
                    denVars >>

NextRun ==
    \/ StartRound \/ RunSleep \/ RoundTakesTime \/ CycleStart \/ CycleNeedsUpdate \/ CycleUpdate
    \/ CycleFinish \/ ForNext \/ RoundReturn

SpecRun == InitRun /\ [][NextRun]_vars

(***************************************************************************)
(* Claims on the polling loop (SpecRun).                                   *)
(***************************************************************************)

\* the pulls and the needs_update calls in the history of a cycle
PullsOf(cycle) == SelectSeq(cycle.log, LAMBDA e : e.op = "pull")

CallsOf(cycle) == SelectSeq(cycle.log, LAMBDA e : e.op = "needs_update")

\* the sequences the pulls gave, one after the other
RECURSIVE Concatenated(_)
Concatenated(events) ==
    IF events = << >> THEN << >>
    ELSE Head(events).gave \o Concatenated(Tail(events))

\* where an address first occurs in a sequence, and where an address of its
\* class first occurs
FirstIndex(addrs, a) ==
    CHOOSE i \in 1..Len(addrs) :
        addrs[i] = a /\ \A j \in 1..(i - 1) : addrs[j] # a

FirstOfType(addrs, a) ==
    CHOOSE i \in 1..Len(addrs) :
        addrs[i].type = a.type /\ \A j \in 1..(i - 1) : addrs[j].type # a.type

\* the subscriptions of updater u are pulled once each in subscribe order,
\* all before the first needs_update call, and what is collected is the
\* concatenation of what the pulls gave
PullOrder(u) ==
    LET cycle == run_cycle[u]
    IN  /\ \A k \in 1..Len(PullsOf(cycle)) : PullsOf(cycle)[k].sub = k
        /\ (cycle.pc \in {"loop", "done"} \/ CallsOf(cycle) # << >>) =>
                Len(PullsOf(cycle)) = Len(run_subscriptions[u])
        /\ \A i \in 1..Len(cycle.log) : \A j \in 1..Len(cycle.log) :
                (cycle.log[i].op = "pull" /\ cycle.log[j].op # "pull") => i < j
        /\ cycle.pc \in {"loop", "done"} =>
                cycle.all_addresses = Concatenated(PullsOf(cycle))

\* C23 as stated: in a cycle every subscription is pulled exactly once, in
\* subscribe order, all pulls before the first needs_update call; the
\* collected sequence is the concatenation of the pulled sequences; and the
\* surviving addresses are processed in the relative order in which they
\* occur in the collected sequence.
C23_ProcessingOrder ==
    \A u \in 1..Len(run_cycle) :
        /\ PullOrder(u)
        /\ \A i \in 1..Len(CallsOf(run_cycle[u])) :
            \A j \in 1..Len(CallsOf(run_cycle[u])) :
                i < j => FirstIndex(run_cycle[u].all_addresses,
                                    CallsOf(run_cycle[u])[i].gave[1])
                            < FirstIndex(run_cycle[u].all_addresses,
                                         CallsOf(run_cycle[u])[j].gave[1])

\* C23, amended: the pulls and the collected sequence are as stated, and the
\* surviving addresses are processed in the order in which their classes
\* first occur in the collected sequence.
C23_ProcessingOrderByClass ==
    \A u \in 1..Len(run_cycle) :
        /\ PullOrder(u)
        /\ \A i \in 1..Len(CallsOf(run_cycle[u])) :
            \A j \in 1..Len(CallsOf(run_cycle[u])) :
                i < j => FirstOfType(run_cycle[u].all_addresses,
                                     CallsOf(run_cycle[u])[i].gave[1])
                            < FirstOfType(run_cycle[u].all_addresses,
                                          CallsOf(run_cycle[u])[j].gave[1])

\* a cycle over two subscriptions has collected a private IPv4 address, an
\* IPv6 address and a global IPv4 address, and has processed the global IPv4
\* address and then the IPv6 address
C23_Witness ==
    /\ run_cycle[1].pc = "done"
    /\ Len(run_subscriptions[1]) = 2
    /\ run_cycle[1].all_addresses
            = << IPv4AddressUpdate(IPv4Address("10.0.0.1")),
                 IPv6AddressUpdate(IPv6Address("fe80::1")),
                 IPv4AddressUpdate(IPv4Address("8.8.8.8")) >>
    /\ Len(CallsOf(run_cycle[1])) = 2
    /\ CallsOf(run_cycle[1])[1].gave = << IPv4AddressUpdate(IPv4Address("8.8.8.8")) >>
    /\ CallsOf(run_cycle[1])[2].gave = << IPv6AddressUpdate(IPv6Address("fe80::1")) >>

\* C26: update_from_subscriptions of an updater is in progress only while
\* update_now awaits that very call, so a round starts only when nothing of
\* the round before is in progress; within a round the updaters are called
\* one after another in list order; and never are two calls of one updater
\* in progress.
C26_NoOverlappingCycles ==
    /\ \A u \in 1..Len(run_cycle) :
            /\ run_cycle[u].running <= 1
            /\ run_cycle[u].running = 1 <=> run_cycle[u].pc = "loop"
            /\ run_cycle[u].running = 1 => (run_pc = "call" /\ run_updater = u)
    /\ run_pc = "run" => \A u \in 1..Len(run_cycle) : run_cycle[u].pc # "loop"
    /\ run_log = [k \in 1..Len(run_log) |-> k]
    /\ run_pc = "for" => Len(run_log) = run_updater - 1
    /\ run_pc = "call" => Len(run_log) = run_updater

\* in the second round, the first updater's cycle has returned and the
\* second updater's cycle is in progress
C26_Witness ==
    /\ run_last_update # DatetimeMin
    /\ run_pc = "call"
    /\ run_updater = 2
    /\ run_log = << 1, 2 >>
    /\ run_cycle[1].pc = "done"
    /\ run_cycle[2].pc = "loop"
    /\ run_cycle[2].log # << >>

\* C27: a step that is no step of updater u's own cycle, a step of another
\* updater's cycle (its pulls, needs_update, update, and the zone
\* resolution in them) in particular, leaves the zone cache of u (zone and
\* refresh timestamp) and the subscription list of u unchanged.
C27_UpdaterIsolation ==
    [][\A u \in 1..Len(run_cycle) :
            run_cycle'[u] = run_cycle[u] =>
                /\ run_zone'[u] = run_zone[u]
                /\ run_subscriptions'[u] = run_subscriptions[u]]_vars

\* the second updater has run a cycle on an address and resolved no zone,
\* while the first updater's cache holds the zone it resolved
C27_Witness ==
    /\ Len(run_cycle) = 2
    /\ run_zone[1].zone # NoZone
    /\ run_zone[1].last = StartTime
    /\ run_zone[2] = [zone |-> NoZone, last |-> DatetimeMin]
    /\ run_cycle[2].pc = "done"
    /\ CallsOf(run_cycle[2]) # << >>

\* a pull in the history of a cycle raised
PullFailed(cycle) ==
    \E i \in 1..Len(cycle.log) :
        cycle.log[i].op = "pull" /\ cycle.log[i].exc # "None"

\* C37: when a pull of a subscription of updater u raised in a cycle, that
\* cycle has called neither needs_update nor update, the call of
\* update_from_subscriptions has raised, the updaters after u have not been
\* called in that round, and the run loop has ended.
C37_PullFailureEndsRun ==
    \A u \in 1..Len(run_cycle) :
        PullFailed(run_cycle[u]) =>
            /\ \A i \in 1..Len(run_cycle[u].log) : run_cycle[u].log[i].op = "pull"
            /\ run_cycle[u].pc = "raised"
            /\ run_cycle[u].running = 0
            /\ run_pc = "stopped"
            /\ run_updater = u
            /\ run_log = [k \in 1..u |-> k]

\* in the second round the interface is gone: the first updater's pull of
\* it has raised, the second updater, which ran in the first round, has not
\* been called again, and run has ended
C37_Witness ==
    /\ Len(run_cycle) = 2
    /\ run_last_update # DatetimeMin
    /\ run_pc = "stopped"
    /\ run_log = << 1 >>
    /\ Len(run_cycle[1].log) = 1
    /\ run_cycle[1].log[1].exc = "DDNSWolfUserException"
    /\ run_cycle[2].pc = "done"

\* the round that ended with the event at position i of the history lasted
\* longer than check_interval
LongRound(i) ==
    /\ i > 1
    /\ run_events[i].op = "end"
    /\ run_events[i - 1].op = "start"
    /\ run_events[i].at - run_events[i - 1].at > run_check_interval

\* C38: the first thing run does is start a round, at the time at which it
\* was called; of two consecutive rounds the later one starts check_interval
\* or more after the start of the earlier one; and after a round that lasted
\* longer than check_interval run does not sleep: the next round starts at
\* the time at which that round ended.
C38_PollingSchedule ==
    /\ run_events # << >> => run_events[1] = [op |-> "start", at |-> StartTime]
    /\ \A i \in 1..Len(run_events) : \A j \in 1..Len(run_events) :
            (i < j /\ run_events[i].op = "start" /\ run_events[j].op = "start") =>
                run_events[j].at >= run_events[i].at + run_check_interval
    /\ \A i \in 1..Len(run_events) :
            LongRound(i) =>
                /\ i < Len(run_events) =>
                        run_events[i + 1] = [op |-> "start", at |-> run_events[i].at]
                /\ (i = Len(run_events) /\ run_pc = "run") =>
                        run_last_update + run_check_interval <= run_now

\* the first round lasted longer than check_interval and the second round
\* has started when the first ended
C38_Witness ==
    /\ Len(run_events) = 3
    /\ LongRound(2)
    /\ run_events[3].op = "start"
    /\ run_events[3].at = run_events[1].at + run_check_interval + 1

\* C34: with one updater writing to the registrar, when a cycle has
\* collected the same addresses as the cycle before it, it sends no patch
\* and no create for an address for which the update call of the cycle
\* before returned.
C34_Convergence ==
    \A u \in 1..Len(run_cycle) :
        (/\ Len(run_cycle) = 1
         /\ run_cycle[u].pc \in {"loop", "done"}
         /\ run_cycle[u].all_addresses = run_cycle[u].before.all_addresses) =>
            \A i \in 1..Len(run_cycle[u].log) :
                (/\ run_cycle[u].log[i].op = "update"
                 /\ run_cycle[u].log[i].gave[1] \in run_cycle[u].before.updated) =>
                    run_cycle[u].log[i].writes = << >>

\* the first cycle patched the A record and created the AAAA record; the
\* second cycle collected the same addresses and has asked needs_update for
\* both
C34_Witness ==
    /\ Len(run_cycle) = 1
    /\ run_cycle[1].pc = "done"
    /\ run_cycle[1].all_addresses = run_cycle[1].before.all_addresses
    /\ run_cycle[1].before.updated
            = { IPv4AddressUpdate(IPv4Address("8.8.8.8")),
                IPv6AddressUpdate(IPv6Address("fe80::1")) }
    /\ Len(CallsOf(run_cycle[1])) = 2
    /\ \A i \in 1..Len(run_cycle[1].log) : run_cycle[1].log[i].exc = "None"
    /\ Len(run_records) = 2
    /\ run_records[1].content = "8.8.8.8"

====
